---- MODULE Spec2Model ----
(***************************************************************************)
(* Model of mcpizer's schema ingestion and tool registration engine.       *)
(*                                                                         *)
(* The repository holds two wirings of the same use cases:                 *)
(*   "mcpizer" - SyncSchemaUseCase registers tools with the MCP server     *)
(*               adapter (AddTool) and binds a handler closure per tool;   *)
(*   "bridge"  - SyncSchemaUseCase saves tools to InMemoryToolRepository   *)
(*               and InvokeToolUseCase looks them up per call;             *)
(* and a test harness that drives SyncSchemaUseCase.Execute with mock      *)
(* fetchers and generators ("harness").  The generators of gRPC tools are  *)
(* also called on their own, on schemas a fetcher can hand them            *)
(* ("library"): the .proto generator is in no wiring.  The HTTP invoker is *)
(* modelled per call ("httpinvoker"): one Invoke on the details and the    *)
(* arguments the caller hands it, and the response of the upstream; the    *)
(* router in front of the invokers likewise ("router"), and the resolution *)
(* of an OpenAPI source by probing ("autodiscover").  The entries of the   *)
(* configuration file are followed from configs.Load to the fetcher the    *)
(* sync use case picks for them ("config").  The Connect invoker is        *)
(* modelled per call like the HTTP invoker ("connect"), and the generators *)
(* that take the .proto schema of a Connect-RPC source run on it ("mode"). *)
(* The OpenAPI generator runs twice on one document ("openapi"),           *)
(* sanitizeName twice on one name ("sanitize"), and the in-memory          *)
(* repository is driven on its own, its Save statement by statement under  *)
(* the lock ("memrepo").                                                   *)
(*                                                                         *)
(* Strings are sequences of characters, so that lower-casing, splitting,    *)
(* truncation and length limits are computed as the Go code computes them. *)
(***************************************************************************)
EXTENDS Integers, Sequences, FiniteSets, TLC

(***************************************************************************)
(* Strings: a string is the sequence of its characters, each a            *)
(* one-character string; all strings of the model are ASCII, so Go's byte  *)
(* lengths and byte slices are lengths and subsequences.                   *)
(***************************************************************************)
LowerChars == <<"a","b","c","d","e","f","g","h","i","j","k","l","m",
                "n","o","p","q","r","s","t","u","v","w","x","y","z">>
UpperChars == <<"A","B","C","D","E","F","G","H","I","J","K","L","M",
                "N","O","P","Q","R","S","T","U","V","W","X","Y","Z">>
DigitChars == <<"0","1","2","3","4","5","6","7","8","9">>
HexChars == <<"0","1","2","3","4","5","6","7","8","9","a","b","c","d","e","f">>

IsUpper(c) == \E i \in 1..26 : UpperChars[i] = c
IsLower(c) == \E i \in 1..26 : LowerChars[i] = c
IsDigit(c) == \E i \in 1..10 : DigitChars[i] = c

\* the byte of an ASCII character
Ord(c) ==
  IF IsLower(c) THEN 96 + (CHOOSE i \in 1..26 : LowerChars[i] = c)
  ELSE IF IsUpper(c) THEN 64 + (CHOOSE i \in 1..26 : UpperChars[i] = c)
  ELSE IF IsDigit(c) THEN 47 + (CHOOSE i \in 1..10 : DigitChars[i] = c)
  ELSE CASE c = " " -> 32
         [] c = "-" -> 45
         [] c = "." -> 46
         [] c = "/" -> 47
         [] c = ":" -> 58
         [] c = "_" -> 95
         [] c = "{" -> 123
         [] c = "}" -> 125

\* n copies of the character c
Rep(c, n) == [i \in 1..n |-> c]

\* strings.ToLower on ASCII
LowerOf(c) == IF IsUpper(c) THEN LowerChars[CHOOSE i \in 1..26 : UpperChars[i] = c] ELSE c

ToLower(s) == [i \in 1..Len(s) |-> LowerOf(s[i])]

\* strings.HasPrefix / strings.HasSuffix / strings.Contains
HasPrefix(s, p) == Len(s) >= Len(p) /\ SubSeq(s, 1, Len(p)) = p
HasSuffix(s, p) == Len(s) >= Len(p) /\ SubSeq(s, Len(s) - Len(p) + 1, Len(s)) = p
Contains(s, p) == \E i \in 1..(Len(s) - Len(p) + 1) : SubSeq(s, i, i + Len(p) - 1) = p

\* Go slice expression s[:n], applied only when len(s) > n
Truncate(s, n) == IF Len(s) > n THEN SubSeq(s, 1, n) ELSE s

\* strings.Split(s, sep) for a one-character separator: never empty,
\* Split("", sep) is the list holding the empty string
RECURSIVE SplitFrom(_, _, _, _)
SplitFrom(s, sep, i, acc) ==
  IF i > Len(s) THEN <<acc>>
  ELSE IF s[i] = sep THEN <<acc>> \o SplitFrom(s, sep, i + 1, <<>>)
  ELSE SplitFrom(s, sep, i + 1, Append(acc, s[i]))

Split(s, sep) == SplitFrom(s, sep, 1, <<>>)

\* strings.Join(parts, sep)
RECURSIVE Join(_, _)
Join(parts, sep) ==
  IF Len(parts) = 0 THEN <<>>
  ELSE IF Len(parts) = 1 THEN parts[1]
  ELSE parts[1] \o sep \o Join(Tail(parts), sep)

\* strings.Trim(s, c) for a one-character cutset
RECURSIVE TrimLeft(_, _)
TrimLeft(s, c) == IF Len(s) > 0 /\ s[1] = c THEN TrimLeft(Tail(s), c) ELSE s

RECURSIVE TrimRight(_, _)
TrimRight(s, c) ==
  IF Len(s) > 0 /\ s[Len(s)] = c THEN TrimRight(SubSeq(s, 1, Len(s) - 1), c) ELSE s

Trim(s, c) == TrimRight(TrimLeft(s, c), c)

\* strings.ReplaceAll(s, <<c, c>>, <<c>>): one left-to-right pass replacing
\* non-overlapping doubled characters
RECURSIVE ReplaceDouble(_, _)
ReplaceDouble(s, c) ==
  IF Len(s) < 2 THEN s
  ELSE IF s[1] = c /\ s[2] = c THEN <<c>> \o ReplaceDouble(SubSeq(s, 3, Len(s)), c)
  ELSE <<s[1]>> \o ReplaceDouble(Tail(s), c)

\* for strings.Contains(name, "__") { name = strings.ReplaceAll(name, "__", "_") }
RECURSIVE CollapseRuns(_, _)
CollapseRuns(s, c) ==
  IF Contains(s, <<c, c>>) THEN CollapseRuns(ReplaceDouble(s, c), c) ELSE s

(***************************************************************************)
(* hash/fnv 32-bit FNV-1a, masked with 0xFFFF, and fmt.Sprintf("%x").      *)
(* FNV-1a computes h = (h XOR byte) * 16777619 mod 2^32 from the offset    *)
(* basis 2166136261.  The callers keep only h.Sum32() & 0xFFFF.  The low   *)
(* 16 bits of a product depend only on the low 16 bits of its factors and  *)
(* the byte is XOR-ed into the low 8 bits, so the masked sum is computed   *)
(* exactly on the low halves: 2166136261 mod 2^16 and 16777619 mod 2^16.   *)
(***************************************************************************)
TwoTo16 == 65536
FnvOffsetLow16 == 40389
FnvPrimeLow16 == 403

RECURSIVE Xor(_, _)
Xor(a, b) ==
  IF a = 0 THEN b
  ELSE IF b = 0 THEN a
  ELSE (((a % 2) + (b % 2)) % 2) + 2 * Xor(a \div 2, b \div 2)

RECURSIVE FnvFrom(_, _, _)
FnvFrom(s, i, h) ==
  IF i > Len(s) THEN h
  ELSE FnvFrom(s, i + 1, (Xor(h, Ord(s[i])) * FnvPrimeLow16) % TwoTo16)

\* h := fnv.New32a(); h.Write(s); h.Sum32() & 0xFFFF
Fnv32aLow16(s) == FnvFrom(s, 1, FnvOffsetLow16)

\* fmt.Sprintf("%x", n): lower-case hexadecimal without padding
RECURSIVE Hex(_)
Hex(n) == IF n < 16 THEN <<HexChars[n + 1]>> ELSE Append(Hex(n \div 16), HexChars[(n % 16) + 1])

(***************************************************************************)
(* Domain records                                                          *)
(***************************************************************************)
\* the empty Go string
EmptyString == <<>>

\* domain.Tool: the name and the description identify the tool to the MCP
\* client (the JSON schemas are not part of this model)
Tool(name, description) == [Name |-> name, Description |-> description]

\* usecase.InvocationDetails with every field at its zero value
ZeroDetails ==
  [Type |-> "", Host |-> EmptyString, BasePath |-> EmptyString,
   HTTPMethod |-> EmptyString, HTTPPath |-> EmptyString,
   PathParams |-> <<>>, QueryParams |-> <<>>, BodyParam |-> EmptyString,
   GRPCService |-> EmptyString, GRPCMethod |-> EmptyString,
   Server |-> EmptyString, Method |-> EmptyString, ContentType |-> ""]

\* what a ToolGenerator returns: ([]domain.Tool, []InvocationDetails, error)
GenResult(tools, details, err) == [tools |-> tools, details |-> details, err |-> err]

(***************************************************************************)
(* gRPC reflection generator                                               *)
(***************************************************************************)
GrpcPartMax == 20
GrpcNameMax == 50
GrpcNameKeep == 40
MaxShortenedLen == 46

\* the tool name of one method of a reflected service
GrpcToolName(serviceName, methodName) ==
  LET parts == Split(serviceName, ".")
      servicePart == Truncate(parts[Len(parts)], GrpcPartMax)
      methodPart == Truncate(methodName, GrpcPartMax)
      toolName == ToLower(servicePart) \o <<"-">> \o ToLower(methodPart)
  IN  IF Len(toolName) > GrpcNameMax
        THEN SubSeq(toolName, 1, GrpcNameKeep) \o <<"-">>
               \o Hex(Fnv32aLow16(serviceName \o <<".">> \o methodName))
        ELSE toolName

\* fmt.Sprintf("Calls %s.%s gRPC method", serviceInfo.Name, method.Name)
GrpcDescription(serviceName, methodName) ==
  <<"C","a","l","l","s"," ">> \o serviceName \o <<".">> \o methodName
    \o <<" ","g","R","P","C"," ","m","e","t","h","o","d">>

GrpcDetails(source, serviceName, methodName) ==
  [ZeroDetails EXCEPT !.Type = "grpc", !.Host = source,
                      !.GRPCService = serviceName, !.GRPCMethod = methodName]

\* the methods of one service, in order, streaming methods skipped
RECURSIVE GrpcServiceTools(_, _, _)
GrpcServiceTools(source, serviceInfo, j) ==
  IF j > Len(serviceInfo.Methods) THEN GenResult(<<>>, <<>>, "")
  ELSE LET method == serviceInfo.Methods[j]
           rest == GrpcServiceTools(source, serviceInfo, j + 1)
       IN  IF method.ClientStreaming \/ method.ServerStreaming
             THEN rest
             ELSE GenResult(
                    <<Tool(GrpcToolName(serviceInfo.Name, method.Name),
                           GrpcDescription(serviceInfo.Name, method.Name))>> \o rest.tools,
                    <<GrpcDetails(source, serviceInfo.Name, method.Name)>> \o rest.details,
                    "")

\* ToolGenerator.generateFromServiceInfos
RECURSIVE generateFromServiceInfos(_, _)
generateFromServiceInfos(source, serviceInfos) ==
  IF Len(serviceInfos) = 0 THEN GenResult(<<>>, <<>>, "")
  ELSE LET first == GrpcServiceTools(source, serviceInfos[1], 1)
           rest == generateFromServiceInfos(source, Tail(serviceInfos))
       IN  GenResult(first.tools \o rest.tools, first.details \o rest.details, "")

\* grpc ToolGenerator.Generate: the schema type is checked first; the
\* fetcher's parsed data is always a []ServiceInfo
GrpcGenerate(schema) ==
  IF schema.Type # "grpc" THEN GenResult(<<>>, <<>>, "invalid schema type for gRPC generator")
  ELSE generateFromServiceInfos(schema.Source, schema.ParsedData)

(***************************************************************************)
(* .proto generator                                                        *)
(***************************************************************************)
\* fmt.Sprintf("/%s.%s/%s", package, service, method)
ProtoFullMethodName(package, serviceName, methodName) ==
  <<"/">> \o package \o <<".">> \o serviceName \o <<"/">> \o methodName

\* fmt.Sprintf("%s_%s", serviceName, methodName)
ProtoToolName(serviceName, methodName) == serviceName \o <<"_">> \o methodName

\* generateMethodDescription without leading comments
ProtoDescription(methodName) ==
  <<"I","n","v","o","k","e","s"," ","t","h","e"," ","g","R","P","C"," ",
    "m","e","t","h","o","d"," ">> \o methodName

RECURSIVE ProtoServiceTools(_, _, _, _)
ProtoServiceTools(serverURL, package, service, j) ==
  IF j > Len(service.Methods) THEN GenResult(<<>>, <<>>, "")
  ELSE LET method == service.Methods[j]
           rest == ProtoServiceTools(serverURL, package, service, j + 1)
       IN  GenResult(
             <<Tool(ProtoToolName(service.Name, method.Name), ProtoDescription(method.Name))>>
               \o rest.tools,
             <<[ZeroDetails EXCEPT !.Type = "grpc", !.Server = serverURL,
                  !.Method = ProtoFullMethodName(package, service.Name, method.Name)]>>
               \o rest.details,
             "")

RECURSIVE ProtoFileTools(_, _, _)
ProtoFileTools(serverURL, fileDesc, k) ==
  IF k > Len(fileDesc.Services) THEN GenResult(<<>>, <<>>, "")
  ELSE LET first == ProtoServiceTools(serverURL, fileDesc.Package, fileDesc.Services[k], 1)
           rest == ProtoFileTools(serverURL, fileDesc, k + 1)
       IN  GenResult(first.tools \o rest.tools, first.details \o rest.details, "")

\* proto Generator.Generate: schema.ParsedData carries the server URL and
\* schema.RawData the .proto file, here in parsed form; a file with an import
\* fails to parse
ProtoGenerate(schema) ==
  IF schema.ParsedData.server = EmptyString
    THEN GenResult(<<>>, <<>>, "server URL is required for .proto schemas")
  ELSE IF schema.RawData.HasImport
    THEN GenResult(<<>>, <<>>, "failed to parse .proto file")
  ELSE ProtoFileTools(schema.ParsedData.server, schema.RawData, 1)

(***************************************************************************)
(* OpenAPI generator                                                       *)
(***************************************************************************)
\* sanitizeName with the underscores trimmed before the replacer ran
sanitizeNameTrimmingFirst(name) ==
  LET lowered == Trim(ToLower(name), "_")
      replaced == [i \in 1..Len(lowered) |->
                     IF lowered[i] \in {" ", "-", "/", "."} THEN "_" ELSE lowered[i]]
  IN  CollapseRuns(replaced, "_")

\* sanitizeName
sanitizeName(name) ==
  LET lowered == ToLower(name)
      replaced == [i \in 1..Len(lowered) |->
                     IF lowered[i] \in {" ", "-", "/", "."} THEN "_" ELSE lowered[i]]
  IN  Trim(CollapseRuns(replaced, "_"), "_")

\* the sanitized path parts that are no {placeholder}
RECURSIVE PathNameParts(_)
PathNameParts(pathParts) ==
  IF Len(pathParts) = 0 THEN <<>>
  ELSE LET part == pathParts[1]
       IN  IF ~HasPrefix(part, <<"{">>) /\ ~HasSuffix(part, <<"}">>)
             THEN <<sanitizeName(part)>> \o PathNameParts(Tail(pathParts))
             ELSE PathNameParts(Tail(pathParts))

\* generateToolName
generateToolName(namespace, path, method, op) ==
  IF op.OperationID # EmptyString
    THEN namespace \o <<"_">> \o sanitizeName(op.OperationID)
    ELSE Join(<<namespace, ToLower(method)>> \o PathNameParts(Split(Trim(path, "/"), "/")),
              <<"_">>)

\* strings.ToUpper on ASCII
UpperOf(c) == IF IsLower(c) THEN UpperChars[CHOOSE i \in 1..26 : LowerChars[i] = c] ELSE c

ToUpper(s) == [i \in 1..Len(s) |-> UpperOf(s[i])]

RequestBodyKey == <<"r","e","q","u","e","s","t","B","o","d","y">>

\* the names of the parameters of an operation that are in the given place
ParamNames(parameters, place) ==
  LET kept == SelectSeq(parameters, LAMBDA prm : prm.In = place)
  IN  [i \in 1..Len(kept) |-> kept[i].Name]

\* generateInputSchema fails only when a non-object JSON body meets a path or
\* query parameter that already uses the key "requestBody"
InputSchemaFails(op) ==
  /\ op.Body = "primitive"
  /\ \E i \in 1..Len(op.Parameters) :
       /\ op.Parameters[i].In \in {"path", "query"}
       /\ op.Parameters[i].Name = RequestBodyKey

\* the description of the tool of an operation
OpenAPIDescription(path, method, op) ==
  IF op.Description # EmptyString THEN op.Description
  ELSE IF op.Summary # EmptyString THEN op.Summary
  ELSE <<"E","x","e","c","u","t","e","s"," ">> \o method \o <<" ">> \o path

\* ToolGenerator.generateInvocationDetails
generateInvocationDetails(host, basePath, path, method, op) ==
  [ZeroDetails EXCEPT
     !.Type = "http", !.Host = host, !.BasePath = basePath,
     !.HTTPMethod = ToUpper(method), !.HTTPPath = path,
     !.PathParams = ParamNames(op.Parameters, "path"),
     !.QueryParams = ParamNames(op.Parameters, "query"),
     !.BodyParam = IF op.Body = "primitive" THEN RequestBodyKey ELSE EmptyString,
     !.ContentType = IF op.Body = "none" THEN "" ELSE "application/json"]

\* determineHostAndBasePathFromServers: the first server entry that resolves
\* to an absolute http or https URL; the entries are given resolved
RECURSIVE FirstUsableServer(_)
FirstUsableServer(servers) ==
  IF Len(servers) = 0 THEN [ok |-> FALSE, Host |-> EmptyString, BasePath |-> EmptyString]
  ELSE IF servers[1].Usable
    THEN [ok |-> TRUE, Host |-> servers[1].Host, BasePath |-> servers[1].BasePath]
  ELSE FirstUsableServer(Tail(servers))

\* the loop of Generate over the operations in the order the two Go maps
\* (paths, then the methods of a path) happened to be ranged over
RECURSIVE OpenAPITools(_, _, _, _)
OpenAPITools(namespace, server, ops, k) ==
  IF k > Len(ops) THEN GenResult(<<>>, <<>>, "")
  ELSE LET op == ops[k]
           rest == OpenAPITools(namespace, server, ops, k + 1)
       IN  IF InputSchemaFails(op) THEN rest
           ELSE GenResult(
                  <<Tool(generateToolName(namespace, op.Path, op.Method, op),
                         OpenAPIDescription(op.Path, op.Method, op))>> \o rest.tools,
                  <<generateInvocationDetails(server.Host, server.BasePath,
                                              op.Path, op.Method, op)>> \o rest.details,
                  "")

\* the orders in which ranging over doc.Paths.Map() and then over
\* pathItem.Operations() can visit the operations of a document: every
\* operation once, the operations of one path next to each other
OpOrders(doc) ==
  LET n == Cardinality(doc.Ops)
  IN  {f \in [1..n -> doc.Ops] :
         /\ \A i, j \in 1..n : i # j => f[i] # f[j]
         /\ \A i, j \in 1..n : (i < j /\ f[i].Path = f[j].Path) =>
              \A m \in i..j : f[m].Path = f[i].Path}

\* openapi ToolGenerator.Generate, for one visiting order of the two maps
OpenAPIGenerate(schema, order) ==
  LET doc == schema.ParsedData
      server == FirstUsableServer(doc.Servers)
      title == sanitizeName(doc.Title)
      namespace == IF title = EmptyString THEN <<"o","p","e","n","a","p","i">> ELSE title
  IN  IF ~server.ok
        THEN GenResult(<<>>, <<>>, "could not determine host/basePath from OpenAPI servers")
        ELSE OpenAPITools(namespace, server, order, 1)

(***************************************************************************)
(* The environment: source strings and what the upstreams serve            *)
(***************************************************************************)
MaxSources == 2
MaxSyncs == 3

GrpcURL == <<"g","r","p","c",":","/","/","a">>
HttpURL == <<"h","t","t","p",":","/","/","b">>
FileURL == <<"a","p","i",".","y","a","m","l">>
OtherURL == <<"f","t","p",":","/","/","c">>

\* the source strings a configuration entry or an admin request can name
SourceCatalog == {GrpcURL, HttpURL, FileURL, OtherURL}

Unary(name) == [Name |-> name, ClientStreaming |-> FALSE, ServerStreaming |-> FALSE]
ServerStream(name) == [Name |-> name, ClientStreaming |-> FALSE, ServerStreaming |-> TRUE]
ClientStream(name) == [Name |-> name, ClientStreaming |-> TRUE, ServerStreaming |-> FALSE]

SvcA == <<"p","k","g",".","a",".","S","v","c">>
SvcB == <<"p","k","g",".","b",".","S","v","c">>
Say == <<"S","a","y">>
Watch == <<"W","a","t","c","h">>
Upload == <<"U","p","l","o","a","d">>

\* reflected services of the gRPC upstream: two services with the same last
\* name component in different packages, and the same upstream after the
\* second service was removed
GrpcServicesTwo ==
  <<[Name |-> SvcA, Methods |-> <<Unary(Say), ServerStream(Watch)>>],
    [Name |-> SvcB, Methods |-> <<Unary(Say), ClientStream(Upload)>>]>>
GrpcServicesOne == <<[Name |-> SvcA, Methods |-> <<Unary(Say)>>]>>

Get == <<"G","E","T">>
Post == <<"P","O","S","T">>
ItemsPath == <<"/","i","t","e","m","s">>
ItemPath == <<"/","i","t","e","m","s","/","{","i","d","}">>
IdName == <<"i","d">>

Operation(path, method, operationID, parameters, body) ==
  [Path |-> path, Method |-> method, OperationID |-> operationID,
   Description |-> EmptyString, Summary |-> EmptyString,
   Parameters |-> parameters, Body |-> body]

ApiServer == [Host |-> <<"h","t","t","p",":","/","/","u","p">>,
              BasePath |-> <<"/","v","1">>, Usable |-> TRUE]

\* the documents of the OpenAPI upstream: a store API whose two GET
\* operations carry no operationId, the same API with a POST whose
\* operationId is 70 characters long, a revision of it that moved the POST
\* to another path, and a document without servers
StoreDoc ==
  [Title |-> <<"S","t","o","r","e">>, Servers |-> <<ApiServer>>,
   Ops |-> {Operation(ItemsPath, Get, EmptyString, <<>>, "none"),
            Operation(ItemPath, Get, EmptyString,
                      <<[Name |-> IdName, In |-> "path"]>>, "none")}]
LongIdDoc ==
  [Title |-> <<"S","t","o","r","e">>, Servers |-> <<ApiServer>>,
   Ops |-> {Operation(ItemsPath, Post, <<"c","r","e","a","t","e">> \o Rep("X", 64),
                      <<>>, "object")}]
MovedDoc ==
  [Title |-> <<"S","t","o","r","e">>, Servers |-> <<ApiServer>>,
   Ops |-> {Operation(ItemPath, Post, <<"c","r","e","a","t","e">> \o Rep("X", 64),
                      <<[Name |-> IdName, In |-> "path"]>>, "object")}]
NoServerDoc ==
  [Title |-> <<"S","t","o","r","e">>, Servers |-> <<>>,
   Ops |-> {Operation(ItemsPath, Get, EmptyString, <<>>, "none")}]

\* domain.APISchema
Schema(source, type, rawData, parsedData) ==
  [Source |-> source, Type |-> type, RawData |-> rawData, ParsedData |-> parsedData]

NoSchema == Schema(EmptyString, "", <<>>, <<>>)

\* what the upstream behind a source string can serve at the time of a fetch
Upstream(url) ==
  IF url = GrpcURL THEN {Schema(url, "grpc", <<>>, GrpcServicesTwo),
                         Schema(url, "grpc", <<>>, GrpcServicesOne)}
  ELSE IF url = HttpURL THEN {Schema(url, "openapi", <<>>, StoreDoc),
                              Schema(url, "openapi", <<>>, LongIdDoc),
                              Schema(url, "openapi", <<>>, MovedDoc),
                              Schema(url, "openapi", <<>>, NoServerDoc)}
  ELSE IF url = FileURL THEN {Schema(url, "openapi", <<>>, StoreDoc)}
  ELSE {}

(***************************************************************************)
(* Errors: nil is the empty chain, fmt.Errorf("...: %w", err) puts a       *)
(* message in front of the chain it wraps                                  *)
(***************************************************************************)
Nil == <<>>
Wrap(msg, err) == <<msg>> \o err
Canceled == <<"context canceled">>

\* errors.Is(err, context.Canceled)
IsCanceled(err) == \E i \in 1..Len(err) : err[i] = "context canceled"

(***************************************************************************)
(* The mock collaborators of the use case tests: the mock generator        *)
(* answers each schema with the result scripted for it                     *)
(***************************************************************************)
HarnessURL == <<"h","t","t","p",":","/","/","e","x","a","m","p","l","e">>

ToolA == Tool(<<"t","o","o","l","-","a">>, <<"A">>)
ToolB == Tool(<<"t","o","o","l","-","b">>, <<"B">>)
DetailsA == [ZeroDetails EXCEPT !.Type = "http", !.HTTPPath = <<"/","a">>]
DetailsB == [ZeroDetails EXCEPT !.Type = "http", !.HTTPPath = <<"/","b">>]

MockScripts ==
  {GenResult(<<ToolA>>, <<DetailsA>>, ""),
   GenResult(<<ToolA, ToolB>>, <<DetailsA, DetailsB>>, ""),
   GenResult(<<>>, <<>>, "generate failed"),
   GenResult(<<ToolA>>, <<DetailsA>>, "generate failed"),
   GenResult(<<ToolA, ToolB>>, <<DetailsA>>, ""),
   GenResult(<<ToolA>>, <<DetailsA, DetailsB>>, "")}

\* MockToolGenerator.Generate
MockGenerate(schema) == schema.ParsedData

(***************************************************************************)
(* State                                                                   *)
(***************************************************************************)
VARIABLES
  wiring,         \* "mcpizer", "harness" or "bridge": which main/test built the use cases
  schemaSources,  \* SyncSchemaUseCase.schemaSources, the configured list
  pc,             \* where the goroutine running a sync stands
  call,           \* the sync call in progress: SyncAllConfiguredSources or Execute
  cur,            \* the locals of processSingleSourceAndRegister
  cancelled,      \* the context of the call in progress is cancelled
  syncErrors,     \* the local syncErrors of SyncAllConfiguredSources
  ret,            \* the error processSingleSourceAndRegister returned
  result,         \* what the last finished call returned to its caller
  mcpTools,       \* the tools of the MCP server: name -> (tool, handler)
  addLog,         \* history: the AddTool calls of the call in progress
  outcomes,       \* history: the source and error of each processSingle... return
  regAtCancel,    \* history: the tools of the MCP server when the context was cancelled
  prevOk,         \* history: source and schema of the last sync that returned nil
  adminCalls,     \* number of admin Execute calls so far
  repoTools,      \* InMemoryToolRepository.tools: name -> domain.Tool
  repoDetails,    \* InMemoryToolRepository.invocationDetails: name -> InvocationDetails
  bridgeRet,      \* what the last Execute of the bridge's sync use case returned
  inv,            \* the locals of InvokeToolUseCase.Execute and where it stands
  saveLog,        \* history: every (name, tool, details) a Save stored together
  bridgeSyncs,    \* number of sync Execute calls of the bridge so far
  invokes,        \* number of InvokeToolUseCase.Execute calls so far
  lib             \* a generator called on its own: its input and what it returned

bridgeVars == <<repoTools, repoDetails, bridgeRet, inv, saveLog, bridgeSyncs, invokes>>

vars == <<wiring, schemaSources, pc, call, cur, cancelled, syncErrors, ret, result,
          mcpTools, addLog, outcomes, regAtCancel, prevOk, adminCalls, bridgeVars, lib>>

EmptyRegistry == [n \in {} |-> n]

NoCall == [kind |-> "none", idx |-> 0]
NoResult == [kind |-> "none", err |-> Nil, errs |-> <<>>]
NoFrame ==
  [src |-> EmptyString, failure |-> "", schema |-> NoSchema,
   tools |-> <<>>, details |-> <<>>, i |-> 0, reg0 |-> EmptyRegistry]
NoPrev == [src |-> EmptyString, schema |-> NoSchema]

\* the locals of processSingleSourceAndRegister on entry
NewFrame(source, registry) == [NoFrame EXCEPT !.src = source, !.reg0 = registry]

(***************************************************************************)
(* SyncSchemaUseCase                                                       *)
(***************************************************************************)
\* determineSchemaType
determineSchemaType(source) ==
  IF HasPrefix(source, <<"g","r","p","c",":","/","/">>) THEN "grpc"
  ELSE IF \/ HasPrefix(source, <<"h","t","t","p",":","/","/">>)
          \/ HasPrefix(source, <<"h","t","t","p","s",":","/","/">>)
          \/ ~Contains(source, <<":","/","/">>)
    THEN "openapi"
  ELSE ""

\* the keys of the fetchers and generators maps handed to NewSyncSchemaUseCase
Fetchers(w) == IF w = "harness" THEN {"openapi"} ELSE {"openapi", "grpc"}
Generators(w) == IF w = "harness" THEN {"openapi"} ELSE {"openapi", "grpc"}

\* the fetchers that read from the network honour the context; the OpenAPI
\* fetcher reads a source without http(s) scheme with os.ReadFile
ReadsNetwork(source) ==
  \/ HasPrefix(source, <<"g","r","p","c",":","/","/">>)
  \/ HasPrefix(source, <<"h","t","t","p",":","/","/">>)
  \/ HasPrefix(source, <<"h","t","t","p","s",":","/","/">>)

FetchResult(schema, err) == [schema |-> schema, err |-> err]

\* what fetcher.Fetch / FetchWithConfig can return
FetchResults(w, source, ctxCancelled) ==
  IF w = "harness"
    THEN {FetchResult(NoSchema, <<"fetch failed">>)}
           \cup {FetchResult(Schema(source, t, <<>>, script), Nil) :
                   t \in {"openapi", "", "graphql"}, script \in MockScripts}
  ELSE IF ReadsNetwork(source) /\ ctxCancelled
    THEN {FetchResult(NoSchema, Canceled)}
  ELSE {FetchResult(NoSchema, <<"upstream unavailable">>)}
         \cup {FetchResult(schema, Nil) : schema \in Upstream(source)}

\* what generator.Generate can return for a fetched schema
GenerateResults(w, schema) ==
  IF w = "harness" THEN {MockGenerate(schema)}
  ELSE IF schema.Type = "grpc" THEN {GrpcGenerate(schema)}
  ELSE {OpenAPIGenerate(schema, order) : order \in OpOrders(schema.ParsedData)}

\* a step of processSingleSourceAndRegister: where it goes on, what it
\* returns when it returns, and its locals
Step(nextPc, err, frame) == [pc |-> nextPc, ret |-> err, frame |-> frame]

\* processSingleSourceAndRegister before the fetch: the schema type and the
\* fetcher of the source
BeforeFetch(w, frame) ==
  LET schemaType == determineSchemaType(frame.src)
  IN  IF schemaType = ""
        THEN Step("returned", <<"could not determine schema type from source format">>,
                  [frame EXCEPT !.failure = "classify"])
      ELSE IF schemaType \notin Fetchers(w)
        THEN Step("returned", <<"no schema fetcher available">>,
                  [frame EXCEPT !.failure = "classify"])
      ELSE Step("fetch", Nil, frame)

\* processSingleSourceAndRegister after the fetch returned fetched: the fetch
\* error, the detected-versus-fetched type check and the generator lookup
AfterFetch(w, frame, fetched) ==
  LET schemaType == determineSchemaType(frame.src)
      typed == IF fetched.schema.Type = ""
                 THEN [fetched.schema EXCEPT !.Type = schemaType]
                 ELSE fetched.schema
  IN  IF fetched.err # Nil
        THEN Step("returned", Wrap("failed to fetch schema", fetched.err),
                  [frame EXCEPT !.failure = "fetch"])
      ELSE IF fetched.schema.Type # "" /\ fetched.schema.Type # schemaType
        THEN Step("returned", <<"detected schema type mismatch with fetched schema type">>,
                  [frame EXCEPT !.failure = "typecheck", !.schema = fetched.schema])
      ELSE IF typed.Type \notin Generators(w)
        THEN Step("returned", <<"no tool generator found for schema type">>,
                  [frame EXCEPT !.failure = "generate", !.schema = typed])
      ELSE Step("generate", Nil, [frame EXCEPT !.schema = typed])

\* a mutant of AfterGenerate: the generator's error is logged, not returned
AfterGenerateIgnoringError(frame, gen) ==
  Step("register", Nil,
       [frame EXCEPT !.tools = gen.tools, !.details = gen.details, !.i = 1,
                     !.failure = IF gen.err # "" THEN "generate" ELSE ""])

\* processSingleSourceAndRegister after generator.Generate returned gen
AfterGenerate(frame, gen) ==
  IF gen.err # ""
    THEN Step("returned", <<"failed to generate tools/details", gen.err>>,
              [frame EXCEPT !.failure = "generate"])
    ELSE Step("register", Nil,
              [frame EXCEPT !.tools = gen.tools, !.details = gen.details, !.i = 1])

\* convertDomainToolToMCPTool: mcp.NewTool with the name and the description
\* of the domain tool; it returns no error on any input
convertDomainToolToMCPTool(dTool) ==
  [mcpTool |-> [Name |-> dTool.Name, Description |-> dTool.Description], err |-> Nil]

\* createToolHandler: the closure captures the invocation details and the
\* tool name; a call of the handler invokes the router with these details
createToolHandler(details, toolName) == [details |-> details, toolName |-> toolName]

\* a mutant of AddTool: the server forgets the tools it held
AddToolForgetting(registry, mcpTool, handlerFunc) ==
  [n \in {mcpTool.Name} |-> [tool |-> mcpTool, handler |-> handlerFunc]]

\* MCPServerAdapter.AddTool: the server keeps one tool and handler per name
AddTool(registry, mcpTool, handlerFunc) ==
  [n \in (DOMAIN registry) \cup {mcpTool.Name} |->
     IF n = mcpTool.Name THEN [tool |-> mcpTool, handler |-> handlerFunc]
     ELSE registry[n]]

\* a mutant of ToolIndex: the generator's output is ranged over backwards
ToolIndexBackwards(frame) == Len(frame.tools) - frame.i + 1

\* the index of the tool the registration loop handles in its i-th round
ToolIndex(frame) == frame.i

\* a mutant of NextSourceIndex: SyncAllConfiguredSources stops at the first
\* source that fails
NextSourceIndexStopping(idx, err, count) == IF err # Nil THEN count + 1 ELSE idx + 1

\* the source SyncAllConfiguredSources turns to after the one at idx returned
NextSourceIndex(idx, err, count) == idx + 1

(***************************************************************************)
(* The bridge: InMemoryToolRepository, the sync use case that saves into   *)
(* it, and InvokeToolUseCase                                               *)
(***************************************************************************)
MaxBridgeSyncs == 2
MaxInvokes == 1

\* OPENAPI_DEFAULT_HOST is not set
BridgeDefaultHost == EmptyString

UnknownName == <<"n","o","n","e">>
ErrToolNotFound == <<"tool not found">>

NoInvocation ==
  [pc |-> "idle", name |-> EmptyString, tool |-> Tool(EmptyString, EmptyString),
   details |-> ZeroDetails, err |-> Nil]

\* InMemoryToolRepository.Save from the i-th tool on: a tool without name is
\* skipped, any other is stored with the details at its index
RECURSIVE SaveFrom(_, _, _, _)
SaveFrom(repo, tools, details, i) ==
  IF i > Len(tools) THEN repo
  ELSE IF tools[i].Name = EmptyString THEN SaveFrom(repo, tools, details, i + 1)
  ELSE LET name == tools[i].Name
           names == (DOMAIN repo.tools) \cup {name}
       IN  SaveFrom([tools |-> [n \in names |-> IF n = name THEN tools[i] ELSE repo.tools[n]],
                     details |-> [n \in names |-> IF n = name THEN details[i]
                                                  ELSE repo.details[n]]],
                    tools, details, i + 1)

\* InMemoryToolRepository.Save, under the write lock from entry to return
Save(repo, tools, details) ==
  IF Len(tools) # Len(details)
    THEN [repo |-> repo, err |-> <<"save failed: mismatch between number of tools and invocation details">>]
    ELSE [repo |-> SaveFrom(repo, tools, details, 1), err |-> Nil]

\* the pairs a Save stores
Stored(tools, details) ==
  IF Len(tools) # Len(details) THEN {}
  ELSE {[name |-> tools[i].Name, tool |-> tools[i], details |-> details[i]] :
          i \in {k \in 1..Len(tools) : tools[k].Name # EmptyString}}

\* the bridge's openapi ToolGenerator.Generate, for one visiting order of the
\* two maps: the host is the default host or that of the first server, and a
\* document without usable server is generated with an empty host
BridgeOpenAPIGenerate(schema, order) ==
  LET doc == schema.ParsedData
      title == sanitizeName(doc.Title)
      namespace == IF title = EmptyString THEN <<"o","p","e","n","a","p","i">> ELSE title
      host == IF BridgeDefaultHost # EmptyString THEN BridgeDefaultHost
              ELSE IF Len(doc.Servers) > 0 /\ doc.Servers[1].Usable THEN doc.Servers[1].Host
              ELSE EmptyString
  IN  OpenAPITools(namespace, [Host |-> host, BasePath |-> EmptyString], order, 1)

\* what the OpenAPI fetcher, which the bridge's Execute asks for every
\* source, can return
BridgeFetchResults(source) ==
  {FetchResult(NoSchema, <<"upstream unavailable">>)}
    \cup {FetchResult(schema, Nil) : schema \in {u \in Upstream(source) : u.Type = "openapi"}}

\* the bridge's SyncSchemaUseCase.Execute once the fetch returned fetched and
\* the generator, if it is called, gen: the error it returns and the
\* repository it leaves
BridgeExecuteResult(repo, fetched, gen) ==
  IF fetched.err # Nil
    THEN [repo |-> repo, err |-> Wrap("failed to fetch schema", fetched.err), saved |-> {}]
  ELSE IF fetched.schema.Type \notin {"openapi", "grpc"}
    THEN [repo |-> repo, err |-> <<"no tool generator found for schema type">>, saved |-> {}]
  ELSE IF gen.err # ""
    THEN [repo |-> repo, err |-> <<"failed to generate tools/details", gen.err>>, saved |-> {}]
  ELSE LET saved == Save(repo, gen.tools, gen.details)
       IN  IF saved.err # Nil
             THEN [repo |-> repo, err |-> Wrap("failed to save generated tools/details", saved.err),
                   saved |-> {}]
             ELSE [repo |-> saved.repo, err |-> Nil, saved |-> Stored(gen.tools, gen.details)]

\* POST of a source to the bridge: SyncSchemaUseCase.Execute. The fetch and
\* the generation work on locals; Save runs under the write lock
BridgeExecute(source) ==
  /\ wiring = "bridge"
  /\ bridgeSyncs < MaxBridgeSyncs
  /\ bridgeSyncs' = bridgeSyncs + 1
  /\ \E fetched \in BridgeFetchResults(source) :
       \E gen \in (IF fetched.err # Nil THEN {GenResult(<<>>, <<>>, "")}
                   ELSE {BridgeOpenAPIGenerate(fetched.schema, order) :
                           order \in OpOrders(fetched.schema.ParsedData)}) :
         LET done == BridgeExecuteResult([tools |-> repoTools, details |-> repoDetails],
                                         fetched, gen)
         IN  /\ repoTools' = done.repo.tools
             /\ repoDetails' = done.repo.details
             /\ bridgeRet' = done.err
             /\ saveLog' = saveLog \cup done.saved
  /\ UNCHANGED <<inv, invokes, lib, wiring, schemaSources, pc, call, cur, cancelled,
                 syncErrors, ret, result, mcpTools, addLog, outcomes, regAtCancel, prevOk,
                 adminCalls>>

\* a client calls a tool: InvokeToolUseCase.Execute is entered
InvokeStart(toolName) ==
  /\ wiring = "bridge"
  /\ inv.pc \in {"idle", "done"}
  /\ invokes < MaxInvokes
  /\ invokes' = invokes + 1
  /\ inv' = [NoInvocation EXCEPT !.pc = "findTool", !.name = toolName]
  /\ UNCHANGED <<repoTools, repoDetails, bridgeRet, saveLog, bridgeSyncs, lib, wiring,
                 schemaSources, pc, call, cur, cancelled, syncErrors, ret, result, mcpTools,
                 addLog, outcomes, regAtCancel, prevOk, adminCalls>>

\* InvokeToolUseCase.Execute: repository.FindToolByName, under the read lock
FindToolByName ==
  /\ inv.pc = "findTool"
  /\ inv' = IF inv.name \in DOMAIN repoTools
              THEN [inv EXCEPT !.pc = "findDetails", !.tool = repoTools[inv.name]]
              ELSE [inv EXCEPT !.pc = "done", !.err = ErrToolNotFound]
  /\ UNCHANGED <<repoTools, repoDetails, bridgeRet, saveLog, bridgeSyncs, invokes, lib,
                 wiring, schemaSources, pc, call, cur, cancelled, syncErrors, ret, result,
                 mcpTools, addLog, outcomes, regAtCancel, prevOk, adminCalls>>

\* InvokeToolUseCase.Execute: repository.FindInvocationDetailsByName, under
\* the read lock, taken anew
FindInvocationDetailsByName ==
  /\ inv.pc = "findDetails"
  /\ inv' = IF inv.name \in DOMAIN repoDetails
              THEN [inv EXCEPT !.pc = "invoke", !.details = repoDetails[inv.name]]
              ELSE [inv EXCEPT !.pc = "done", !.err = ErrToolNotFound]
  /\ UNCHANGED <<repoTools, repoDetails, bridgeRet, saveLog, bridgeSyncs, invokes, lib,
                 wiring, schemaSources, pc, call, cur, cancelled, syncErrors, ret, result,
                 mcpTools, addLog, outcomes, regAtCancel, prevOk, adminCalls>>

\* InvokeToolUseCase.Execute: invoker.Invoke with the details found, and
\* the return of its result or of its error
InvokeUpstream ==
  /\ inv.pc = "invoke"
  /\ \E failed \in BOOLEAN :
       inv' = [inv EXCEPT !.pc = "done",
                          !.err = IF failed THEN <<"failed to invoke tool", "upstream error">>
                                  ELSE Nil]
  /\ UNCHANGED <<repoTools, repoDetails, bridgeRet, saveLog, bridgeSyncs, invokes, lib,
                 wiring, schemaSources, pc, call, cur, cancelled, syncErrors, ret, result,
                 mcpTools, addLog, outcomes, regAtCancel, prevOk, adminCalls>>

(***************************************************************************)
(* The generators of gRPC tools called on their own                        *)
(***************************************************************************)
NoGenResult == GenResult(<<>>, <<>>, "")
NoLib == [in |-> NoSchema, by |-> "none", out |-> NoGenResult]

ProtoServer == <<"h","t","t","p",":","/","/","r","p","c">>
ProtoPackage == <<"p","k","g">>
Greeter == <<"G","r","e","e","t","e","r">>

\* a parsed .proto file
ProtoFile(hasImport, methods) ==
  [HasImport |-> hasImport, Package |-> ProtoPackage,
   Services |-> <<[Name |-> Greeter, Methods |-> methods]>>]

\* the method lists of the service under generation
MethodLists ==
  {<<Unary(Say)>>, <<Unary(Say), ServerStream(Watch)>>, <<ClientStream(Upload), Unary(Say)>>,
   <<ServerStream(Watch), ClientStream(Upload)>>}

\* a reflected service whose last name component is 31 characters long, and
\* a method name of 24 characters
LongServiceName ==
  <<"v","e","r","y",".","l","o","n","g",".","p","a","c","k","a","g","e",".","n","a","m","e",".","T","h","i","s","I","s","A","S","e","r","v","i","c","e","W","i","t","h","A","V","e","r","y","L","o","n","g","N","a","m","e">>
LongMethodName ==
  <<"D","o","S","o","m","e","t","h","i","n","g","E","x","t","r","a","o","r","d","i","n","a","r","y">>

\* schemas a .proto fetcher and a reflection fetcher hand to their generators
LibraryInputs ==
  {Schema(ProtoServer, "proto", ProtoFile(hasImport, methods), [server |-> server]) :
     hasImport \in BOOLEAN, methods \in MethodLists, server \in {ProtoServer, EmptyString}}
  \cup {Schema(GrpcURL, "grpc", <<>>, <<[Name |-> ProtoPackage \o <<".">> \o Greeter,
                                         Methods |-> methods]>>) : methods \in MethodLists}
  \cup {Schema(GrpcURL, "grpc", <<>>, <<[Name |-> LongServiceName,
                                         Methods |-> <<Unary(methodName)>>]>>) :
          methodName \in {Say, LongMethodName}}

\* proto Generator.Generate(schema)
GenerateFromProto ==
  /\ wiring = "library"
  /\ lib.by = "none"
  /\ lib.in.Type = "proto"
  /\ lib' = [lib EXCEPT !.by = "proto", !.out = ProtoGenerate(lib.in)]
  /\ UNCHANGED <<bridgeVars, wiring, schemaSources, pc, call, cur, cancelled, syncErrors,
                 ret, result, mcpTools, addLog, outcomes, regAtCancel, prevOk, adminCalls>>

\* grpc ToolGenerator.Generate(schema)
GenerateFromReflection ==
  /\ wiring = "library"
  /\ lib.by = "none"
  /\ lib.in.Type = "grpc"
  /\ lib' = [lib EXCEPT !.by = "grpc", !.out = GrpcGenerate(lib.in)]
  /\ UNCHANGED <<bridgeVars, wiring, schemaSources, pc, call, cur, cancelled, syncErrors,
                 ret, result, mcpTools, addLog, outcomes, regAtCancel, prevOk, adminCalls>>

(***************************************************************************)
(* HTTP invoker: values of arguments, fmt and encoding/json on them        *)
(***************************************************************************)
\* an argument value: an int, a string, or a map from names to values
IntValue(n) == [t |-> "int", v |-> n]
StrValue(str) == [t |-> "str", v |-> str]
ObjValue(fields) == [t |-> "obj", v |-> fields]

\* strconv of a non-negative int
RECURSIVE Decimal(_)
Decimal(n) ==
  IF n < 10 THEN <<DigitChars[n + 1]>> ELSE Append(Decimal(n \div 10), DigitChars[(n % 10) + 1])

\* s < t in the byte order Go sorts strings by
RECURSIVE StringLess(_, _)
StringLess(s, t) ==
  IF Len(t) = 0 THEN FALSE
  ELSE IF Len(s) = 0 THEN TRUE
  ELSE IF s[1] = t[1] THEN StringLess(Tail(s), Tail(t))
  ELSE Ord(s[1]) < Ord(t[1])

\* the keys of a map in sorted order, as encoding/json, fmt and
\* url.Values.Encode visit them
RECURSIVE SortedKeys(_)
SortedKeys(keys) ==
  IF keys = {} THEN <<>>
  ELSE LET least == CHOOSE k \in keys : \A other \in keys \ {k} : StringLess(k, other)
       IN  <<least>> \o SortedKeys(keys \ {least})

\* fmt.Sprintf("%v", v)
RECURSIVE FormatV(_)
RECURSIVE FormatFields(_, _)
FormatV(value) ==
  IF value.t = "int" THEN Decimal(value.v)
  ELSE IF value.t = "str" THEN value.v
  ELSE <<"m","a","p","[">> \o FormatFields(value.v, SortedKeys(DOMAIN value.v)) \o <<"]">>

FormatFields(fields, keys) ==
  IF Len(keys) = 0 THEN <<>>
  ELSE keys[1] \o <<":">> \o FormatV(fields[keys[1]])
         \o (IF Len(keys) > 1 THEN <<" ">> ELSE <<>>) \o FormatFields(fields, Tail(keys))

\* json.Marshal(v): ints as digits, strings quoted, maps as objects with
\* their keys sorted; the strings of the model need no escaping
RECURSIVE Marshal(_)
RECURSIVE MarshalFields(_, _)
Marshal(value) ==
  IF value.t = "int" THEN Decimal(value.v)
  ELSE IF value.t = "str" THEN <<"\"">> \o value.v \o <<"\"">>
  ELSE <<"{">> \o MarshalFields(value.v, SortedKeys(DOMAIN value.v)) \o <<"}">>

MarshalFields(fields, keys) ==
  IF Len(keys) = 0 THEN <<>>
  ELSE <<"\"">> \o keys[1] \o <<"\"", ":">> \o Marshal(fields[keys[1]])
         \o (IF Len(keys) > 1 THEN <<",">> ELSE <<>>) \o MarshalFields(fields, Tail(keys))

\* strings.ReplaceAll(s, old, new) for a non-empty old
RECURSIVE ReplaceAll(_, _, _)
ReplaceAll(s, old, new) ==
  IF Len(s) < Len(old) THEN s
  ELSE IF SubSeq(s, 1, Len(old)) = old
    THEN new \o ReplaceAll(SubSeq(s, Len(old) + 1, Len(s)), old, new)
  ELSE <<s[1]>> \o ReplaceAll(Tail(s), old, new)

\* path.Join(basePath, httpPath) on paths without "." and ".." elements:
\* the non-empty elements joined by a slash, doubled slashes collapsed and
\* a trailing slash dropped
PathJoin(a, b) ==
  LET joined == IF a = EmptyString THEN b
                ELSE IF b = EmptyString THEN a
                ELSE a \o <<"/">> \o b
      collapsed == CollapseRuns(joined, "/")
  IN  IF Len(collapsed) > 1 /\ collapsed[Len(collapsed)] = "/"
        THEN SubSeq(collapsed, 1, Len(collapsed) - 1)
        ELSE collapsed

\* url.QueryEscape on the characters of the model: a space becomes a plus
QueryEscape(str) == [i \in 1..Len(str) |-> IF str[i] = " " THEN "+" ELSE str[i]]

\* url.Values.Encode: key=value pairs in key order, joined by an ampersand
RECURSIVE EncodeQuery(_, _)
EncodeQuery(query, keys) ==
  IF Len(keys) = 0 THEN <<>>
  ELSE QueryEscape(keys[1]) \o <<"=">> \o QueryEscape(query[keys[1]])
         \o (IF Len(keys) > 1 THEN <<"&">> ELSE <<>>) \o EncodeQuery(query, Tail(keys))

\* url.Parse(host) fails on a percent sign that starts no escape
UrlParseFails(host) ==
  \E i \in 1..Len(host) :
    /\ host[i] = "%"
    /\ ~(i + 2 <= Len(host)
         /\ \E a, b \in 1..16 : HexChars[a] = host[i + 1] /\ HexChars[b] = host[i + 2])

(***************************************************************************)
(* HTTP invoker: Invoker.Invoke up to the request it hands to the client   *)
(***************************************************************************)
JSONContentType == "application/json"

\* the characters net/url escapes in a path, among those of the model
PathEscapes == {[c |-> "{", code |-> <<"%","7","B">>],
                [c |-> "}", code |-> <<"%","7","D">>],
                [c |-> " ", code |-> <<"%","2","0">>]}

\* URL.String() on the path: URL.EscapedPath()
RECURSIVE EscapedPath(_)
EscapedPath(path) ==
  IF Len(path) = 0 THEN <<>>
  ELSE (IF \E e \in PathEscapes : e.c = path[1]
          THEN (CHOOSE e \in PathEscapes : e.c = path[1]).code
          ELSE <<path[1]>>) \o EscapedPath(Tail(path))

\* the path the upstream reads from the request line: r.URL.Path
RECURSIVE UnescapedPath(_)
UnescapedPath(raw) ==
  IF Len(raw) = 0 THEN <<>>
  ELSE IF Len(raw) >= 3 /\ \E e \in PathEscapes : e.code = SubSeq(raw, 1, 3)
    THEN <<(CHOOSE e \in PathEscapes : e.code = SubSeq(raw, 1, 3)).c>>
           \o UnescapedPath(SubSeq(raw, 4, Len(raw)))
  ELSE <<raw[1]>> \o UnescapedPath(Tail(raw))

\* the loop over params that fills the placeholders of the path: the path
\* after it and the names that filled none (remainingParams).  Go visits the
\* map in any order; the order shows only when a value holds a placeholder
\* itself, which no value of the model does
RECURSIVE SubstitutePath(_, _, _)
SubstitutePath(path, params, keys) ==
  IF Len(keys) = 0 THEN [path |-> path, remaining |-> {}]
  ELSE LET k == keys[1]
           placeholder == <<"{">> \o k \o <<"}">>
           hit == Contains(path, placeholder)
           rest == SubstitutePath(IF hit THEN ReplaceAll(path, placeholder, FormatV(params[k]))
                                         ELSE path,
                                  params, Tail(keys))
       IN  [path |-> rest.path,
            remaining |-> IF hit THEN rest.remaining ELSE rest.remaining \cup {k}]

ProcessedPathDroppingPlaceholders(details, params) ==
  LET filled == SubstitutePath(PathJoin(details.BasePath, details.HTTPPath), params,
                               SortedKeys(DOMAIN params))
  IN  [filled EXCEPT !.path = ReplaceAll(ReplaceAll(filled.path, <<"{">>, <<>>), <<"}">>, <<>>)]

ProcessedPath(details, params) ==
  SubstitutePath(PathJoin(details.BasePath, details.HTTPPath), params,
                 SortedKeys(DOMAIN params))

\* the names of the arguments added to the query string
QueryKeys(details, params) ==
  {k \in ProcessedPath(details, params).remaining :
     \E i \in 1..Len(details.QueryParams) : details.QueryParams[i] = k}

BodyCandidateParamsWithQuery(details, params) ==
  ProcessedPath(details, params).remaining

\* bodyCandidateParams: in no placeholder and not a query parameter
BodyCandidateParams(details, params) ==
  ProcessedPath(details, params).remaining \ QueryKeys(details, params)

BodyAllowed(details) ==
  details.HTTPMethod \in {<<"P","O","S","T">>, <<"P","U","T">>, <<"P","A","T","C","H">>}

\* the branch "bodyVal, ok := bodyCandidateParams[details.BodyParam]; ok"
SimpleBodyFound(details, params) ==
  /\ BodyAllowed(details)
  /\ details.BodyParam # EmptyString
  /\ details.BodyParam \in BodyCandidateParams(details, params)

SimpleBodyUnencoded(details, params) ==
  FormatV(params[details.BodyParam])

\* the request body of the simple branch
SimpleBody(details, params) ==
  IF details.ContentType = JSONContentType
    THEN Marshal(params[details.BodyParam])
    ELSE FormatV(params[details.BodyParam])

\* bodyParams: the candidates when no BodyParam is set, else the empty map
\* made at the top of the block
BodyParams(details, params) ==
  IF BodyAllowed(details) /\ details.BodyParam = EmptyString
    THEN BodyCandidateParams(details, params)
    ELSE {}

\* "requestBody == nil && len(bodyParams) > 0"
ComplexBodyNeeded(details, params) ==
  /\ BodyAllowed(details)
  /\ ~SimpleBodyFound(details, params)
  /\ BodyParams(details, params) # {}

ComplexBody(details, params) ==
  Marshal(ObjValue([k \in BodyParams(details, params) |-> params[k]]))

NoRequest ==
  [Method |-> EmptyString, URL |-> EmptyString, Path |-> EmptyString,
   RawQuery |-> EmptyString, HasBody |-> FALSE, Body |-> EmptyString, ContentType |-> ""]

\* Invoke up to client.Do(req): the request, or the error returned before it
BuildRequest(details, params) ==
  IF UrlParseFails(details.Host)
    THEN [req |-> NoRequest, err |-> <<"invalid host URL">>]
  ELSE IF ComplexBodyNeeded(details, params) /\ details.ContentType # JSONContentType
    THEN [req |-> NoRequest, err |-> <<"cannot handle complex body for Content-Type">>]
  ELSE
    LET processedPath == ProcessedPath(details, params).path
        queryKeys == QueryKeys(details, params)
        rawQuery == EncodeQuery([k \in queryKeys |-> FormatV(params[k])], SortedKeys(queryKeys))
        hasBody == SimpleBodyFound(details, params) \/ ComplexBodyNeeded(details, params)
        body == IF SimpleBodyFound(details, params) THEN SimpleBody(details, params)
                ELSE IF ComplexBodyNeeded(details, params) THEN ComplexBody(details, params)
                ELSE EmptyString
    IN  [req |-> [Method |-> details.HTTPMethod,
                  URL |-> details.Host \o EscapedPath(processedPath)
                            \o (IF queryKeys # {} THEN <<"?">> \o rawQuery ELSE <<>>),
                  Path |-> UnescapedPath(EscapedPath(processedPath)),
                  RawQuery |-> rawQuery,
                  HasBody |-> hasBody,
                  Body |-> body,
                  ContentType |-> IF hasBody THEN details.ContentType ELSE ""],
         err |-> Nil]

(***************************************************************************)
(* HTTP invoker: the response and what Invoke returns for it               *)
(***************************************************************************)
JSONMediaType == <<"a","p","p","l","i","c","a","t","i","o","n","/","j","s","o","n">>
TextMediaType == <<"t","e","x","t","/","p","l","a","i","n">>

QueryName == <<"q">>
FieldName == <<"n","a","m","e">>
Put == <<"P","U","T">>
Patch == <<"P","A","T","C","H">>

\* the value each argument name carries when a call supplies it
ArgumentValue(name) ==
  IF name = IdName THEN IntValue(7)
  ELSE IF name = QueryName THEN StrValue(<<"a"," ","b">>)
  ELSE IF name = FieldName THEN ObjValue([k \in {<<"k">>} |-> StrValue(<<"v">>)])
  ELSE StrValue(<<"t">>)

ArgumentNames == {IdName, QueryName, FieldName, RequestBodyKey}

\* the argument maps of a tools/call request
ArgumentMaps == {[k \in names |-> ArgumentValue(k)] : names \in SUBSET ArgumentNames}

\* interface{}(nil)
NilResult == [t |-> "nil", v |-> <<>>]

\* json.Unmarshal(body, &resultData) decodes the texts that encode a value
JSONValues == {ArgumentValue(name) : name \in ArgumentNames}
UnmarshalFails(body) == \A value \in JSONValues : Marshal(value) # body
Unmarshal(body) == CHOOSE value \in JSONValues : Marshal(value) = body

\* an HTTP response as Invoke reads it
Response(statusCode, contentType, body) ==
  [StatusCode |-> statusCode, ContentType |-> contentType, Body |-> body]

Responses ==
  {Response(statusCode, contentType, body) :
     statusCode \in {199, 200, 299, 300, 404},
     contentType \in {JSONMediaType, TextMediaType},
     body \in {EmptyString, Marshal(ArgumentValue(FieldName)), <<"o","o","p","s">>}}

IsSuccessThrough300(response) == response.StatusCode >= 200 /\ response.StatusCode <= 300

IsSuccess(response) == response.StatusCode >= 200 /\ response.StatusCode < 300

SuccessResultNilWhenEmpty(response) ==
  IF Len(response.Body) = 0 THEN NilResult
  ELSE IF Contains(response.ContentType, JSONMediaType)
    THEN IF UnmarshalFails(response.Body) THEN StrValue(response.Body)
         ELSE Unmarshal(response.Body)
    ELSE StrValue(response.Body)

\* resultData of the branch for a successful response
SuccessResult(response) ==
  IF Contains(response.ContentType, JSONMediaType) /\ Len(response.Body) > 0
    THEN IF UnmarshalFails(response.Body) THEN StrValue(response.Body)
         ELSE Unmarshal(response.Body)
    ELSE StrValue(response.Body)

\* fmt.Errorf("HTTP %d: %s", resp.StatusCode, respBodyStr)
StatusError(response) ==
  <<<<"H","T","T","P"," ">> \o Decimal(response.StatusCode) \o <<":"," ">> \o response.Body>>

\* what Invoke returns once the response body is read
ProcessResponse(response) ==
  IF IsSuccess(response)
    THEN [result |-> SuccessResult(response), err |-> Nil]
    ELSE [result |-> NilResult, err |-> StatusError(response)]

\* the operations an OpenAPI document can describe for the invoker: a
\* collection path and an item path, the item path also with its id declared
\* on the path item, which the generator does not read
InvokerOperations ==
  {Operation(shape.path, method, EmptyString, shape.parameters, body) :
     shape \in {[path |-> ItemsPath, parameters |-> <<[Name |-> QueryName, In |-> "query"]>>],
                [path |-> ItemPath, parameters |-> <<[Name |-> IdName, In |-> "path"],
                                                     [Name |-> QueryName, In |-> "query"]>>],
                [path |-> ItemPath, parameters |-> <<>>]},
     method \in {Get, Post, Put, Patch},
     body \in {"none", "primitive", "object"}}

BadHost == <<"h","t","t","p",":","/","/","u","p","%">>

\* the invocation details the router hands to the HTTP invoker: those the
\* OpenAPI generator makes, and one whose host does not parse
InvokerDetails ==
  {generateInvocationDetails(ApiServer.Host, ApiServer.BasePath, op.Path, op.Method, op) :
     op \in InvokerOperations}
  \cup {[generateInvocationDetails(BadHost, EmptyString, ItemsPath, Get,
                                   Operation(ItemsPath, Get, EmptyString, <<>>, "none"))
          EXCEPT !.Host = BadHost]}

InvokerInputs == {[details |-> details, params |-> params] :
                    details \in InvokerDetails, params \in ArgumentMaps}

NoResponse == Response(0, EmptyString, EmptyString)

\* Invoker.Invoke up to client.Do(req)
HTTPInvoke ==
  /\ wiring = "httpinvoker"
  /\ lib.by = "none"
  /\ LET built == BuildRequest(lib.in.details, lib.in.params)
     IN  lib' = [lib EXCEPT
                   !.by = IF built.err = Nil THEN "sent" ELSE "refused",
                   !.out = [req |-> built.req, resp |-> NoResponse,
                            result |-> NilResult, err |-> built.err]]
  /\ UNCHANGED <<bridgeVars, wiring, schemaSources, pc, call, cur, cancelled, syncErrors,
                 ret, result, mcpTools, addLog, outcomes, regAtCancel, prevOk, adminCalls>>

\* client.Do(req) or io.ReadAll(resp.Body) fails
HTTPDoFails ==
  /\ wiring = "httpinvoker"
  /\ lib.by = "sent"
  /\ lib' = [lib EXCEPT !.by = "unanswered",
                        !.out.err = <<"request execution failed">>]
  /\ UNCHANGED <<bridgeVars, wiring, schemaSources, pc, call, cur, cancelled, syncErrors,
                 ret, result, mcpTools, addLog, outcomes, regAtCancel, prevOk, adminCalls>>

\* the upstream answers and Invoke returns
HTTPResponse(response) ==
  /\ wiring = "httpinvoker"
  /\ lib.by = "sent"
  /\ lib' = [lib EXCEPT !.by = "answered",
                        !.out.resp = response,
                        !.out.result = ProcessResponse(response).result,
                        !.out.err = ProcessResponse(response).err]
  /\ UNCHANGED <<bridgeVars, wiring, schemaSources, pc, call, cur, cancelled, syncErrors,
                 ret, result, mcpTools, addLog, outcomes, regAtCancel, prevOk, adminCalls>>

(***************************************************************************)
(* The invoker router                                                      *)
(***************************************************************************)
\* one call of a backend invoker, with what the router hands it
BackendCall(backend, target, service, method) ==
  [backend |-> backend, target |-> target, service |-> service, method |-> method]

\* the case "grpc": InvokeGRPC on Server or else Host, with the service and
\* the method split off a Method of at least three parts
RouteGRPC(details) ==
  LET target == IF details.Server # EmptyString THEN details.Server ELSE details.Host
      parts == Split(details.Method, "/")
  IN  IF details.Method # EmptyString /\ Len(parts) >= 3
        THEN BackendCall("grpc", target, parts[2], parts[3])
        ELSE BackendCall("grpc", target, details.GRPCService, details.GRPCMethod)

\* the case "connect": InvokeHTTP on Server or else Host
RouteConnect(details) ==
  BackendCall("connect",
              IF details.Server # EmptyString THEN details.Server ELSE details.Host,
              EmptyString, details.Method)

\* the case "http", "": Invoke with the details as they are
RouteHTTP(details) ==
  BackendCall("http", details.Host, EmptyString, details.HTTPMethod \o <<" ">> \o details.HTTPPath)

RouteDefaultingToHTTP(details) ==
  IF details.Type = "grpc" THEN <<RouteGRPC(details)>>
  ELSE IF details.Type = "connect" THEN <<RouteConnect(details)>>
  ELSE <<RouteHTTP(details)>>

\* the switch on details.Type: the backend calls made
Route(details) ==
  IF details.Type = "grpc" THEN <<RouteGRPC(details)>>
  ELSE IF details.Type = "connect" THEN <<RouteConnect(details)>>
  ELSE IF details.Type \in {"http", ""} THEN <<RouteHTTP(details)>>
  ELSE <<>>

\* the details a call can reach the router with: of the reflection, .proto
\* and OpenAPI generators, of a Connect-RPC source, with a Method that is no
\* full path, without a type, and with types the switch does not list
RouterDetails ==
  {GrpcDetails(GrpcURL, SvcA, Say),
   [ZeroDetails EXCEPT !.Type = "grpc", !.Server = ProtoServer,
                       !.Method = ProtoFullMethodName(ProtoPackage, Greeter, Say)],
   [ZeroDetails EXCEPT !.Type = "grpc", !.Host = GrpcURL, !.Method = Say,
                       !.GRPCService = SvcB, !.GRPCMethod = Say],
   [ZeroDetails EXCEPT !.Type = "connect", !.Server = ProtoServer,
                       !.Method = ProtoFullMethodName(ProtoPackage, Greeter, Say)],
   [ZeroDetails EXCEPT !.Type = "connect", !.Host = ProtoServer,
                       !.Method = ProtoFullMethodName(ProtoPackage, Greeter, Say)],
   generateInvocationDetails(ApiServer.Host, ApiServer.BasePath, ItemsPath, Get,
                             Operation(ItemsPath, Get, EmptyString, <<>>, "none")),
   [generateInvocationDetails(ApiServer.Host, ApiServer.BasePath, ItemsPath, Post,
                              Operation(ItemsPath, Post, EmptyString, <<>>, "object"))
      EXCEPT !.Type = ""],
   [ZeroDetails EXCEPT !.Type = "GRPC", !.Host = GrpcURL,
                       !.GRPCService = SvcA, !.GRPCMethod = Say],
   [ZeroDetails EXCEPT !.Type = "graphql", !.Host = ApiServer.Host]}

\* Router.Invoke: the chosen backend returns its result or its error, and
\* the router returns what it returned
RouterInvoke(backendErr) ==
  /\ wiring = "router"
  /\ lib.by = "none"
  /\ LET calls == Route(lib.in)
     IN  lib' = [lib EXCEPT
                   !.by = "routed",
                   !.out = [calls |-> calls,
                            err |-> IF calls = <<>> THEN <<"unknown invocation type">>
                                    ELSE backendErr]]
  /\ UNCHANGED <<bridgeVars, wiring, schemaSources, pc, call, cur, cancelled, syncErrors,
                 ret, result, mcpTools, addLog, outcomes, regAtCancel, prevOk, adminCalls>>

(***************************************************************************)
(* OpenAPI auto-discovery: AutoDiscoverer and the fetch that follows it    *)
(***************************************************************************)
commonOpenAPIPaths ==
  <<<<"/","o","p","e","n","a","p","i",".","j","s","o","n">>,
    <<"/","d","o","c","s","/","o","p","e","n","a","p","i",".","j","s","o","n">>,
    <<"/","s","w","a","g","g","e","r",".","j","s","o","n">>,
    <<"/","v","3","/","a","p","i","-","d","o","c","s">>,
    <<"/","a","p","i","-","d","o","c","s">>,
    <<"/","a","p","i","/","o","p","e","n","a","p","i",".","j","s","o","n">>,
    <<"/","a","p","i","/","v","1","/","o","p","e","n","a","p","i",".","j","s","o","n">>,
    <<"/","a","p","i","/","s","w","a","g","g","e","r",".","j","s","o","n">>,
    <<"/","s","w","a","g","g","e","r","/","v","1","/","s","w","a","g","g","e","r",".","j","s","o","n">>,
    <<"/","_","s","p","e","c">>,
    <<"/","s","p","e","c">>,
    <<"/","a","p","i","-","s","p","e","c",".","j","s","o","n">>>>

\* the test that takes a source for a direct schema URL
IsDirectSchemaURL(source) ==
  LET lowerSource == ToLower(source)
  IN  \/ HasSuffix(lowerSource, <<".","j","s","o","n">>)
      \/ Contains(lowerSource, <<"o","p","e","n","a","p","i">>)
      \/ Contains(lowerSource, <<"s","w","a","g","g","e","r">>)
      \/ Contains(lowerSource, <<"a","p","i","-","d","o","c","s">>)

\* parsedURL.Scheme == "" for the sources of the model
HasNoScheme(source) == ~Contains(source, <<":","/","/">>)

\* the URL a probe is made of: DiscoverSchema puts the paths behind
\* parsedURL.String(), with http for a missing scheme, and
\* DiscoverSchemaWithHeaders behind the source without its trailing slashes
ProbeBase(source, withHeaders) ==
  IF withHeaders THEN TrimRight(source, "/")
  ELSE IF HasNoScheme(source) THEN <<"h","t","t","p",":","/","/">> \o source
  ELSE source

\* DiscoverSchema / DiscoverSchemaWithHeaders return an error before any probe
DiscoveryRefused(source, withHeaders) ==
  UrlParseFails(source) \/ (withHeaders /\ HasNoScheme(source))

\* what a probed URL can answer: no answer at all, or a status and a
\* content type
Answer(failed, statusCode, contentType) ==
  [failed |-> failed, StatusCode |-> statusCode, ContentType |-> contentType]

Answers ==
  {Answer(TRUE, 0, EmptyString)}
  \cup {Answer(FALSE, statusCode, contentType) :
          statusCode \in {200, 404},
          contentType \in {JSONMediaType \o <<";"," ","c","h","a","r","s","e","t","=","u","t","f","-","8">>,
                           <<"a","p","p","l","i","c","a","t","i","o","n","/","v","n","d",".","o","a","i",".","o","p","e","n","a","p","i","+","j","s","o","n">>,
                           <<"t","e","x","t","/","h","t","m","l">>}}

\* checkOpenAPIEndpoint / isValidOpenAPIWithHeaders: found
checkOpenAPIEndpoint(answer) ==
  /\ ~answer.failed
  /\ answer.StatusCode = 200
  /\ \/ Contains(answer.ContentType, JSONMediaType)
     \/ Contains(answer.ContentType, <<"a","p","p","l","i","c","a","t","i","o","n","/","v","n","d",".","o","a","i",".","o","p","e","n","a","p","i","+","j","s","o","n">>)

\* the sources of an OpenAPI fetch: base URLs with and without a trailing
\* slash and without a scheme, schema URLs by extension and by keyword, a
\* local file, and a URL that does not parse
BaseURL == <<"h","t","t","p",":","/","/","b">>
DiscoverySources ==
  {BaseURL, BaseURL \o <<"/">>, <<"b">>, BadHost, FileURL,
   BaseURL \o <<"/","s","p","e","c",".","y","a","m","l">>,
   BaseURL \o <<"/","x",".","j","s","o","n">>,
   BaseURL \o <<"/","v","3","/","a","p","i","-","d","o","c","s">>,
   BaseURL \o <<"/","S","w","a","g","g","e","r","/","u","i">>,
   BaseURL \o <<"/","o","p","e","n","a","p","i">>}

DiscoveryInputs ==
  {[source |-> source, withHeaders |-> withHeaders] :
     source \in DiscoverySources, withHeaders \in BOOLEAN}

NoAnswer == Answer(TRUE, 0, EmptyString)

\* ResolveSchemaSource / ResolveSchemaSourceWithHeaders up to the first probe
ResolveSchemaSource ==
  /\ wiring = "autodiscover"
  /\ lib.by = "none"
  /\ LET unprobed == \/ IsDirectSchemaURL(lib.in.source)
                     \/ DiscoveryRefused(lib.in.source, lib.in.withHeaders)
     IN  lib' = [lib EXCEPT
                   !.by = IF unprobed THEN "resolved" ELSE "probing",
                   !.out = [probes |-> <<>>, answer |-> NoAnswer,
                            resolved |-> IF unprobed THEN lib.in.source ELSE EmptyString,
                            fetched |-> EmptyString]]
  /\ UNCHANGED <<bridgeVars, wiring, schemaSources, pc, call, cur, cancelled, syncErrors,
                 ret, result, mcpTools, addLog, outcomes, regAtCancel, prevOk, adminCalls>>

ProbeContinuing(answer) ==
  /\ wiring = "autodiscover"
  /\ lib.by = "probing"
  /\ LET i == Len(lib.out.probes) + 1
         schemaURL == ProbeBase(lib.in.source, lib.in.withHeaders) \o commonOpenAPIPaths[i]
         found == checkOpenAPIEndpoint(answer)
     IN  lib' = [lib EXCEPT
                   !.by = IF i = Len(commonOpenAPIPaths) THEN "resolved" ELSE "probing",
                   !.out.probes = Append(@, [url |-> schemaURL, found |-> found]),
                   !.out.answer = answer,
                   !.out.resolved = IF found THEN schemaURL
                                    ELSE IF i = Len(commonOpenAPIPaths) THEN lib.in.source
                                    ELSE @]
  /\ UNCHANGED <<bridgeVars, wiring, schemaSources, pc, call, cur, cancelled, syncErrors,
                 ret, result, mcpTools, addLog, outcomes, regAtCancel, prevOk, adminCalls>>

\* one round of the loop over commonOpenAPIPaths: the probe of the next
\* path; a found schema is returned, and after the last path the discovery
\* fails and the source is used as it is
Probe(answer) ==
  /\ wiring = "autodiscover"
  /\ lib.by = "probing"
  /\ LET i == Len(lib.out.probes) + 1
         schemaURL == ProbeBase(lib.in.source, lib.in.withHeaders) \o commonOpenAPIPaths[i]
         found == checkOpenAPIEndpoint(answer)
     IN  lib' = [lib EXCEPT
                   !.by = IF found \/ i = Len(commonOpenAPIPaths) THEN "resolved"
                          ELSE "probing",
                   !.out.probes = Append(@, [url |-> schemaURL, found |-> found]),
                   !.out.answer = answer,
                   !.out.resolved = IF found THEN schemaURL
                                    ELSE IF i = Len(commonOpenAPIPaths) THEN lib.in.source
                                    ELSE @]
  /\ UNCHANGED <<bridgeVars, wiring, schemaSources, pc, call, cur, cancelled, syncErrors,
                 ret, result, mcpTools, addLog, outcomes, regAtCancel, prevOk, adminCalls>>

\* SchemaFetcher.Fetch / FetchWithConfig load the schema from resolvedSrc
FetchResolved ==
  /\ wiring = "autodiscover"
  /\ lib.by = "resolved"
  /\ lib' = [lib EXCEPT !.by = "fetched", !.out.fetched = lib.out.resolved]
  /\ UNCHANGED <<bridgeVars, wiring, schemaSources, pc, call, cur, cancelled, syncErrors,
                 ret, result, mcpTools, addLog, outcomes, regAtCancel, prevOk, adminCalls>>

(***************************************************************************)
(* Configuration entries: configs.Load and the classification and fetch    *)
(* of the entries it keeps                                                 *)
(***************************************************************************)
\* an entry of schema_sources: a plain string, or an object with url,
\* server and type
ConfigEntry(format, url, server, type) ==
  [format |-> format, URL |-> url, Server |-> server, Type |-> type]

ProtoFileURL == <<"s","v","c",".","p","r","o","t","o">>
PinnedProtoURL == <<"g","i","t","h","u","b",":","/","/","o","/","r","/","s","v","c",".","p","r","o","t","o","@","v","1">>
GitHubURL == <<"g","i","t","h","u","b",":","/","/","o","/","r","/","a","p","i",".","y","a","m","l">>
BareHost == <<"b">>

ConfigURLs == {GitHubURL, GrpcURL, ProtoFileURL, PinnedProtoURL, HttpURL, BareHost, OtherURL}

ConfigEntries ==
  {ConfigEntry("string", url, EmptyString, "") : url \in ConfigURLs}
  \cup {ConfigEntry("object", url, server, type) :
          url \in ConfigURLs, server \in {EmptyString, ProtoServer}, type \in {"", "connect"}}

\* Load keeps the entry in finalCfg.SchemaSources: a string always, an
\* object unless its url is empty or ends in .proto without a server
KeepsEntry(entry) ==
  IF entry.format = "string" THEN TRUE
  ELSE /\ entry.URL # EmptyString
       /\ ~(HasSuffix(entry.URL, <<".","p","r","o","t","o">>) /\ entry.Server = EmptyString)

\* configs.Load on one entry of the file
LoadEntry ==
  /\ wiring = "config"
  /\ lib.by = "none"
  /\ lib' = [lib EXCEPT
               !.by = IF KeepsEntry(lib.in) THEN "kept" ELSE "skipped",
               !.out = [warned |-> ~KeepsEntry(lib.in), kind |-> "", fetcher |-> "none",
                        err |-> Nil]]
  /\ UNCHANGED <<bridgeVars, wiring, schemaSources, pc, call, cur, cancelled, syncErrors,
                 ret, result, mcpTools, addLog, outcomes, regAtCancel, prevOk, adminCalls>>

\* processSingleSourceAndRegister on a kept entry, up to the call of the
\* fetcher: the use case is handed the URL and the headers only
ClassifyEntry ==
  /\ wiring = "config"
  /\ lib.by = "kept"
  /\ LET schemaType == determineSchemaType(lib.in.URL)
     IN  lib' = [lib EXCEPT
                   !.by = "classified",
                   !.out.kind = schemaType,
                   !.out.fetcher = IF schemaType \in Fetchers("mcpizer") THEN schemaType
                                   ELSE "none",
                   !.out.err = IF schemaType = ""
                                 THEN <<"could not determine schema type from source format">>
                               ELSE IF schemaType \notin Fetchers("mcpizer")
                                 THEN <<"no schema fetcher available">>
                               ELSE Nil]
  /\ UNCHANGED <<bridgeVars, wiring, schemaSources, pc, call, cur, cancelled, syncErrors,
                 ret, result, mcpTools, addLog, outcomes, regAtCancel, prevOk, adminCalls>>

(***************************************************************************)
(* Connect invoker: Invoker.InvokeHTTP                                     *)
(***************************************************************************)
ErrorKey == <<"e","r","r","o","r">>
CodeKey == <<"c","o","d","e">>
MessageKey == <<"m","e","s","s","a","g","e">>
SentenceKey == <<"s","e","n","t","e","n","c","e">>

\* a map with one or two entries
Fields1(k, value) == [key \in {k} |-> value]
Fields2(k1, value1, k2, value2) == [key \in {k1, k2} |-> IF key = k1 THEN value1 ELSE value2]

\* the JSON documents of the Connect upstream: an error envelope, a reply,
\* a reply whose error member is a string, and a number
ConnectErrorDoc ==
  ObjValue(Fields1(ErrorKey,
                   ObjValue(Fields2(CodeKey, StrValue(<<"i","n","v","a","l","i","d","_","a","r","g","u","m","e","n","t">>),
                                    MessageKey, StrValue(<<"e","m","p","t","y">>)))))
ConnectReplyDoc == ObjValue(Fields1(SentenceKey, StrValue(<<"h","i">>)))
ConnectErrorTextDoc == ObjValue(Fields1(ErrorKey, StrValue(<<"x">>)))
ConnectDocs == {ConnectErrorDoc, ConnectReplyDoc, ConnectErrorTextDoc, IntValue(7)}

\* json.Unmarshal(respBody, &result) into a map: fails on texts that are
\* no JSON and on JSON that is no object
UnmarshalObjectFails(body) ==
  \A doc \in ConnectDocs : ~(doc.t = "obj" /\ Marshal(doc) = body)
UnmarshalObject(body) == CHOOSE doc \in ConnectDocs : doc.t = "obj" /\ Marshal(doc) = body

ConnectResponses ==
  {Response(statusCode, JSONMediaType, body) :
     statusCode \in {200, 201, 400},
     body \in {Marshal(doc) : doc \in ConnectDocs} \cup {<<"o","o","p","s">>}}

\* the server with a scheme and without its trailing slash, and the method
ConnectURL(server, fullMethod) ==
  LET withScheme == IF \/ HasPrefix(server, <<"h","t","t","p",":","/","/">>)
                       \/ HasPrefix(server, <<"h","t","t","p","s",":","/","/">>)
                      THEN server
                      ELSE <<"h","t","t","p","s",":","/","/">> \o server
      trimmed == IF HasSuffix(withScheme, <<"/">>)
                   THEN SubSeq(withScheme, 1, Len(withScheme) - 1)
                   ELSE withScheme
  IN  trimmed \o fullMethod

\* result["error"].(map[string]interface{}) succeeds
HasErrorObject(doc) == ErrorKey \in DOMAIN doc.v /\ doc.v[ErrorKey].t = "obj"

\* %v of a member of the error object: <nil> for a missing one
MemberText(fields, key) ==
  IF key \in DOMAIN fields THEN FormatV(fields[key]) ELSE <<"<","n","i","l",">">>

\* fmt.Errorf("Connect-RPC error %v: %v", code, message)
ConnectRPCError(doc) ==
  <<<<"C","o","n","n","e","c","t","-","R","P","C"," ","e","r","r","o","r"," ">> \o MemberText(doc.v[ErrorKey].v, CodeKey)
      \o <<":"," ">> \o MemberText(doc.v[ErrorKey].v, MessageKey)>>

ConnectResultIgnoringErrorObject(response) ==
  IF response.StatusCode # 200
    THEN [result |-> NilResult,
          err |-> <<<<"H","T","T","P"," ","e","r","r","o","r"," ">> \o Decimal(response.StatusCode)
                      \o <<":"," ">> \o response.Body>>]
  ELSE IF UnmarshalObjectFails(response.Body)
    THEN [result |-> NilResult, err |-> <<<<"f","a","i","l","e","d"," ","t","o"," ","u","n","m","a","r","s","h","a","l"," ","r","e","s","p","o","n","s","e">>>>]
  ELSE [result |-> UnmarshalObject(response.Body), err |-> Nil]

\* what InvokeHTTP returns once the response body is read
ConnectResult(response) ==
  IF response.StatusCode # 200
    THEN [result |-> NilResult,
          err |-> <<<<"H","T","T","P"," ","e","r","r","o","r"," ">> \o Decimal(response.StatusCode)
                      \o <<":"," ">> \o response.Body>>]
  ELSE IF UnmarshalObjectFails(response.Body)
    THEN [result |-> NilResult, err |-> <<<<"f","a","i","l","e","d"," ","t","o"," ","u","n","m","a","r","s","h","a","l"," ","r","e","s","p","o","n","s","e">>>>]
  ELSE IF HasErrorObject(UnmarshalObject(response.Body))
    THEN [result |-> NilResult, err |-> ConnectRPCError(UnmarshalObject(response.Body))]
  ELSE [result |-> UnmarshalObject(response.Body), err |-> Nil]

ConnectServer == <<"h","t","t","p","s",":","/","/","d","e","m","o">>
ConnectInputs ==
  {[server |-> server, method |-> ProtoFullMethodName(ProtoPackage, Greeter, Say),
    params |-> params] :
     server \in {ConnectServer, <<"d","e","m","o","/">>},
     params \in {<<>>, Fields1(SentenceKey, StrValue(EmptyString))}}

\* InvokeHTTP up to httpClient.Do(req)
ConnectInvoke ==
  /\ wiring = "connect"
  /\ lib.by = "none"
  /\ lib' = [lib EXCEPT
               !.by = "sent",
               !.out = [req |-> [Method |-> Post,
                                 URL |-> ConnectURL(lib.in.server, lib.in.method),
                                 Body |-> Marshal(ObjValue(lib.in.params))],
                        resp |-> NoResponse, result |-> NilResult, err |-> Nil]]
  /\ UNCHANGED <<bridgeVars, wiring, schemaSources, pc, call, cur, cancelled, syncErrors,
                 ret, result, mcpTools, addLog, outcomes, regAtCancel, prevOk, adminCalls>>

\* httpClient.Do(req) or io.ReadAll(resp.Body) fails
ConnectDoFails ==
  /\ wiring = "connect"
  /\ lib.by = "sent"
  /\ lib' = [lib EXCEPT !.by = "unanswered",
                        !.out.err = <<<<"f","a","i","l","e","d"," ","t","o"," ","s","e","n","d"," ","r","e","q","u","e","s","t">>>>]
  /\ UNCHANGED <<bridgeVars, wiring, schemaSources, pc, call, cur, cancelled, syncErrors,
                 ret, result, mcpTools, addLog, outcomes, regAtCancel, prevOk, adminCalls>>

\* the upstream answers and InvokeHTTP returns
ConnectResponse(response) ==
  /\ wiring = "connect"
  /\ lib.by = "sent"
  /\ lib' = [lib EXCEPT !.by = "answered",
                        !.out.resp = response,
                        !.out.result = ConnectResult(response).result,
                        !.out.err = ConnectResult(response).err]
  /\ UNCHANGED <<bridgeVars, wiring, schemaSources, pc, call, cur, cancelled, syncErrors,
                 ret, result, mcpTools, addLog, outcomes, regAtCancel, prevOk, adminCalls>>

(***************************************************************************)
(* .proto schemas of Connect-RPC sources: the two generators that take     *)
(* them, and the router on the details they emit                           *)
(***************************************************************************)
\* Connect Generator.Generate: it checks the schema and then returns an
\* error on every path
ConnectGenerate(schema) ==
  IF schema.Type \notin {"connect", "connectproto"}
    THEN GenResult(<<>>, <<>>, "invalid schema type for Connect generator")
  ELSE IF schema.ParsedData.server = EmptyString
    THEN GenResult(<<>>, <<>>, "server URL is required for Connect-RPC schemas")
  ELSE GenResult(<<>>, <<>>, "Connect-RPC requires .proto files for tool generation")

\* the schemas the .proto fetcher returns: type connectproto for an entry
\* with type: connect, and the server and the mode of the entry as parsed data
ModeInputs ==
  {Schema(ProtoFileURL, type, ProtoFile(FALSE, methods), [server |-> server, mode |-> mode]) :
     type \in {"proto", "connectproto"}, methods \in MethodLists,
     server \in {ProtoServer, EmptyString}, mode \in {"http", "grpc"}}

\* the backend calls of Router.Invoke on each of the details
Routed(details) == [i \in 1..Len(details) |-> Route(details[i])]

\* proto Generator.Generate(schema), and the router on what it emitted
ProtoGenerateForMode ==
  /\ wiring = "mode"
  /\ lib.by = "none"
  /\ LET generated == ProtoGenerate(lib.in)
     IN  lib' = [lib EXCEPT !.by = "byproto",
                            !.out = [tools |-> generated.tools, details |-> generated.details,
                                     err |-> generated.err,
                                     calls |-> Routed(generated.details)]]
  /\ UNCHANGED <<bridgeVars, wiring, schemaSources, pc, call, cur, cancelled, syncErrors,
                 ret, result, mcpTools, addLog, outcomes, regAtCancel, prevOk, adminCalls>>

\* Connect Generator.Generate(schema), and the router on what it emitted
ConnectGenerateForMode ==
  /\ wiring = "mode"
  /\ lib.by = "none"
  /\ LET generated == ConnectGenerate(lib.in)
     IN  lib' = [lib EXCEPT !.by = "byconnect",
                            !.out = [tools |-> generated.tools, details |-> generated.details,
                                     err |-> generated.err,
                                     calls |-> Routed(generated.details)]]
  /\ UNCHANGED <<bridgeVars, wiring, schemaSources, pc, call, cur, cancelled, syncErrors,
                 ret, result, mcpTools, addLog, outcomes, regAtCancel, prevOk, adminCalls>>

(***************************************************************************)
(* The OpenAPI generator run twice on one document                         *)
(***************************************************************************)
\* a document whose item path declares its id on the path item, where the
\* operations of the path inherit it: the parameters of the operations
\* themselves are empty
PathItemDoc ==
  [Title |-> <<"S","t","o","r","e">>, Servers |-> <<ApiServer>>,
   Ops |-> {Operation(ItemPath, Get, EmptyString, <<>>, "none"),
            Operation(ItemPath, Post, EmptyString, <<>>, "object")}]

\* the parsed documents handed to the generator, each with the bytes it was
\* parsed from
GeneratorInputs ==
  {Schema(HttpURL, "openapi", doc, doc) :
     doc \in {StoreDoc, LongIdDoc, MovedDoc, NoServerDoc, PathItemDoc}}

\* a first run of ToolGenerator.Generate(schema)
GenerateOnce ==
  /\ wiring = "openapi"
  /\ lib.by = "none"
  /\ \E order \in OpOrders(lib.in.ParsedData) :
       lib' = [lib EXCEPT !.by = "once",
                          !.out = [first |-> OpenAPIGenerate(lib.in, order),
                                   second |-> NoGenResult]]
  /\ UNCHANGED <<bridgeVars, wiring, schemaSources, pc, call, cur, cancelled, syncErrors,
                 ret, result, mcpTools, addLog, outcomes, regAtCancel, prevOk, adminCalls>>

\* a second run of ToolGenerator.Generate on the same schema
GenerateAgain ==
  /\ wiring = "openapi"
  /\ lib.by = "once"
  /\ \E order \in OpOrders(lib.in.ParsedData) :
       lib' = [lib EXCEPT !.by = "twice",
                          !.out = [first |-> lib.out.first,
                                   second |-> OpenAPIGenerate(lib.in, order)]]
  /\ UNCHANGED <<bridgeVars, wiring, schemaSources, pc, call, cur, cancelled, syncErrors,
                 ret, result, mcpTools, addLog, outcomes, regAtCancel, prevOk, adminCalls>>

(***************************************************************************)
(* sanitizeName applied to a name and to its own result                    *)
(***************************************************************************)
MaxNameLen == 4

\* the characters of the names: a letter of each case, the underscore, and of
\* the characters the replacer rewrites a space and a dash
NameChars == {"A", "b", "_", " ", "-"}

RECURSIVE NamesOfLen(_)
NamesOfLen(n) ==
  IF n = 0 THEN {<<>>}
  ELSE {Append(name, c) : name \in NamesOfLen(n - 1), c \in NameChars}

\* the titles, operation ids and path parts handed to sanitizeName
SanitizeInputs == UNION {NamesOfLen(n) : n \in 0..MaxNameLen}

\* sanitizeName(name)
SanitizeOnce ==
  /\ wiring = "sanitize"
  /\ lib.by = "none"
  /\ lib' = [lib EXCEPT !.by = "once",
                        !.out = [first |-> sanitizeName(lib.in), second |-> EmptyString]]
  /\ UNCHANGED <<bridgeVars, wiring, schemaSources, pc, call, cur, cancelled, syncErrors,
                 ret, result, mcpTools, addLog, outcomes, regAtCancel, prevOk, adminCalls>>

\* sanitizeName on the result of the first call
SanitizeAgain ==
  /\ wiring = "sanitize"
  /\ lib.by = "once"
  /\ lib' = [lib EXCEPT !.by = "twice",
                        !.out = [first |-> lib.out.first,
                                 second |-> sanitizeName(lib.out.first)]]
  /\ UNCHANGED <<bridgeVars, wiring, schemaSources, pc, call, cur, cancelled, syncErrors,
                 ret, result, mcpTools, addLog, outcomes, regAtCancel, prevOk, adminCalls>>

(***************************************************************************)
(* The in-memory repository on its own: Save step by step under its write  *)
(* lock, and the readers under the read lock                               *)
(***************************************************************************)
MaxSaves == 2

Tool1 == Tool(<<"t","o","o","l","1">>, <<"T","1">>)
Tool2 == Tool(<<"t","o","o","l","2">>, <<"T","2">>)
NamelessTool == Tool(EmptyString, <<"E","m","p","t","y">>)
Details1 == [ZeroDetails EXCEPT !.Type = "http", !.Host = <<"h","o","s","t","1">>]
Details2 == [ZeroDetails EXCEPT !.Type = "http", !.Host = <<"h","o","s","t","2">>]
HTTPDetails == [ZeroDetails EXCEPT !.Type = "http"]

\* the slices a caller hands to Save
ToolLists == {<<>>, <<Tool1>>, <<Tool1, Tool2>>, <<NamelessTool, Tool1>>}
DetailsLists == {<<>>, <<Details1>>, <<Details1, Details2>>, <<HTTPDetails, Details1>>}

\* the repository before any Save: lib.in holds the arguments of the Save in
\* progress or last returned, lib.by its position, lib.out its loop index,
\* the maps as they were when it took the lock, and what List last returned
NoSave ==
  [in |-> [tools |-> <<>>, details |-> <<>>], by |-> "none",
   out |-> [i |-> 0, tools |-> EmptyRegistry, details |-> EmptyRegistry, listed |-> {}]]

\* a write lock that Save gives up between its two assignments
LockedUntilToolStored(by) == by \in {"locked", "loop"}

\* r.mu is write-locked: Save is between r.mu.Lock() and the deferred Unlock
Locked(by) == by \in {"locked", "loop", "details"}

\* a comparison that lets a longer details list pass
LengthsDifferWhenDetailsLack(tools, details) == Len(tools) > Len(details)

\* len(tools) != len(details)
LengthsDiffer(tools, details) == Len(tools) # Len(details)

\* the map m after m[name] = value
Assigned(m, name, value) ==
  [n \in (DOMAIN m) \cup {name} |-> IF n = name THEN value ELSE m[n]]

RepoFrame ==
  <<bridgeRet, inv, saveLog, invokes, wiring, schemaSources, pc, call, cur, cancelled,
    syncErrors, ret, result, mcpTools, addLog, outcomes, regAtCancel, prevOk, adminCalls>>

\* Save is called and takes the write lock
SaveLock(tools, details) ==
  /\ wiring = "memrepo"
  /\ ~Locked(lib.by)
  /\ bridgeSyncs < MaxSaves
  /\ bridgeSyncs' = bridgeSyncs + 1
  /\ lib' = [in |-> [tools |-> tools, details |-> details], by |-> "locked",
             out |-> [i |-> 1, tools |-> repoTools, details |-> repoDetails,
                      listed |-> lib.out.listed]]
  /\ UNCHANGED <<repoTools, repoDetails>>
  /\ UNCHANGED RepoFrame

\* Save compares the lengths and returns the error when they differ
SaveCheckLengths ==
  /\ wiring = "memrepo"
  /\ lib.by = "locked"
  /\ IF LengthsDiffer(lib.in.tools, lib.in.details)
       THEN /\ lib' = [lib EXCEPT !.by = "returned"]
            /\ bridgeRet' = <<"save failed: mismatch between number of tools and invocation details">>
       ELSE /\ lib' = [lib EXCEPT !.by = "loop"]
            /\ UNCHANGED bridgeRet
  /\ UNCHANGED <<repoTools, repoDetails, bridgeSyncs, inv, saveLog, invokes, wiring,
                 schemaSources, pc, call, cur, cancelled, syncErrors, ret, result, mcpTools,
                 addLog, outcomes, regAtCancel, prevOk, adminCalls>>

\* the loop of Save at one tool: a tool without name is skipped, another is
\* assigned to r.tools
SaveStoreTool ==
  /\ wiring = "memrepo"
  /\ lib.by = "loop"
  /\ lib.out.i <= Len(lib.in.tools)
  /\ LET tool == lib.in.tools[lib.out.i]
     IN  IF tool.Name = EmptyString
           THEN /\ lib' = [lib EXCEPT !.out.i = @ + 1]
                /\ UNCHANGED repoTools
           ELSE /\ lib' = [lib EXCEPT !.by = "details"]
                /\ repoTools' = Assigned(repoTools, tool.Name, tool)
  /\ UNCHANGED <<repoDetails, bridgeSyncs>>
  /\ UNCHANGED RepoFrame

\* the loop of Save: the details of the tool are assigned to
\* r.invocationDetails
SaveStoreDetails ==
  /\ wiring = "memrepo"
  /\ lib.by = "details"
  /\ repoDetails' = Assigned(repoDetails, lib.in.tools[lib.out.i].Name,
                             lib.in.details[lib.out.i])
  /\ lib' = [lib EXCEPT !.by = "loop", !.out.i = @ + 1]
  /\ UNCHANGED <<repoTools, bridgeSyncs>>
  /\ UNCHANGED RepoFrame

\* Save returns nil after its loop and the deferred Unlock runs
SaveReturn ==
  /\ wiring = "memrepo"
  /\ lib.by = "loop"
  /\ lib.out.i > Len(lib.in.tools)
  /\ lib' = [lib EXCEPT !.by = "returned"]
  /\ bridgeRet' = Nil
  /\ UNCHANGED <<repoTools, repoDetails, bridgeSyncs, inv, saveLog, invokes, wiring,
                 schemaSources, pc, call, cur, cancelled, syncErrors, ret, result, mcpTools,
                 addLog, outcomes, regAtCancel, prevOk, adminCalls>>

\* List, under the read lock: the tools of r.tools, in no order
RepoList ==
  /\ wiring = "memrepo"
  /\ ~Locked(lib.by)
  /\ lib' = [lib EXCEPT !.out.listed = {repoTools[n] : n \in DOMAIN repoTools}]
  /\ UNCHANGED <<repoTools, repoDetails, bridgeSyncs>>
  /\ UNCHANGED RepoFrame

\* FindToolByName(name), under the read lock
RepoFindToolByName(name) ==
  /\ wiring = "memrepo"
  /\ ~Locked(lib.by)
  /\ inv' = IF name \in DOMAIN repoTools
              THEN [NoInvocation EXCEPT !.pc = "foundTool", !.name = name,
                                        !.tool = repoTools[name]]
              ELSE [NoInvocation EXCEPT !.pc = "foundTool", !.name = name,
                                        !.err = ErrToolNotFound]
  /\ UNCHANGED <<repoTools, repoDetails, bridgeRet, saveLog, bridgeSyncs, invokes, lib,
                 wiring, schemaSources, pc, call, cur, cancelled, syncErrors, ret, result,
                 mcpTools, addLog, outcomes, regAtCancel, prevOk, adminCalls>>

\* FindInvocationDetailsByName(name), under the read lock
RepoFindInvocationDetailsByName(name) ==
  /\ wiring = "memrepo"
  /\ ~Locked(lib.by)
  /\ inv' = IF name \in DOMAIN repoDetails
              THEN [NoInvocation EXCEPT !.pc = "foundDetails", !.name = name,
                                        !.details = repoDetails[name]]
              ELSE [NoInvocation EXCEPT !.pc = "foundDetails", !.name = name,
                                        !.err = ErrToolNotFound]
  /\ UNCHANGED <<repoTools, repoDetails, bridgeRet, saveLog, bridgeSyncs, invokes, lib,
                 wiring, schemaSources, pc, call, cur, cancelled, syncErrors, ret, result,
                 mcpTools, addLog, outcomes, regAtCancel, prevOk, adminCalls>>

(***************************************************************************)
(* Actions of the goroutine that runs a sync                               *)
(***************************************************************************)
\* errors.Join over fmt.Errorf("source '%s': %w", source, err) of each
\* collected failure; nil when nothing was collected
RECURSIVE errorsJoin(_)
errorsJoin(errs) ==
  IF errs = <<>> THEN Nil
  ELSE Wrap("source", Head(errs).err) \o errorsJoin(Tail(errs))

\* the history of processSingleSourceAndRegister returns, extended when the
\* step st returns
Recorded(st) ==
  IF st.pc = "returned"
    THEN Append(outcomes, [source |-> st.frame.src, err |-> st.ret])
    ELSE outcomes

\* the configured lists: every list of catalogued sources up to MaxSources
Configurations ==
  UNION {[1..n -> SourceCatalog] : n \in 0..MaxSources}

Init ==
  /\ wiring \in {"mcpizer", "harness", "bridge", "library", "httpinvoker", "router",
                 "autodiscover", "config", "connect", "mode",
                 "openapi",
                 "sanitize", "memrepo"}
  /\ schemaSources \in (IF wiring = "mcpizer" THEN Configurations ELSE {<<>>})
  /\ pc = (IF wiring = "mcpizer" THEN "boot" ELSE IF wiring = "harness" THEN "idle" ELSE "off")
  /\ repoTools = EmptyRegistry
  /\ repoDetails = EmptyRegistry
  /\ bridgeRet = Nil
  /\ inv = NoInvocation
  /\ saveLog = {}
  /\ bridgeSyncs = 0
  /\ invokes = 0
  /\ lib \in (IF wiring = "library" THEN {[in |-> schema, by |-> "none", out |-> NoGenResult] :
                                             schema \in LibraryInputs}
              ELSE IF wiring = "httpinvoker"
                THEN {[in |-> input, by |-> "none", out |-> NoGenResult] :
                        input \in InvokerInputs}
              ELSE IF wiring = "router"
                THEN {[in |-> details, by |-> "none", out |-> NoGenResult] :
                        details \in RouterDetails}
              ELSE IF wiring = "autodiscover"
                THEN {[in |-> input, by |-> "none", out |-> NoGenResult] :
                        input \in DiscoveryInputs}
              ELSE IF wiring = "config"
                THEN {[in |-> entry, by |-> "none", out |-> NoGenResult] :
                        entry \in ConfigEntries}
              ELSE IF wiring = "connect"
                THEN {[in |-> input, by |-> "none", out |-> NoGenResult] :
                        input \in ConnectInputs}
              ELSE IF wiring = "mode"
                THEN {[in |-> schema, by |-> "none", out |-> NoGenResult] :
                        schema \in ModeInputs}
              ELSE IF wiring = "openapi"
                THEN {[in |-> input, by |-> "none", out |-> NoGenResult] :
                        input \in GeneratorInputs}
              ELSE IF wiring = "sanitize"
                THEN {[in |-> input, by |-> "none", out |-> NoGenResult] :
                        input \in SanitizeInputs}
              ELSE IF wiring = "memrepo" THEN {NoSave}
              ELSE {NoLib})
  /\ call = NoCall
  /\ cur = NoFrame
  /\ cancelled = FALSE
  /\ syncErrors = <<>>
  /\ ret = Nil
  /\ result = NoResult
  /\ mcpTools = EmptyRegistry
  /\ addLog = <<>>
  /\ outcomes = <<>>
  /\ regAtCancel = EmptyRegistry
  /\ prevOk = NoPrev
  /\ adminCalls = 0

\* main: the initial SyncAllConfiguredSources(context.Background())
SyncAllStart ==
  /\ wiring = "mcpizer"
  /\ pc = "boot"
  /\ call' = [kind |-> "all", idx |-> 1]
  /\ syncErrors' = <<>>
  /\ pc' = "loop"
  /\ UNCHANGED <<bridgeVars, lib, wiring, schemaSources, cur, cancelled, ret, result, mcpTools, addLog,
                 outcomes, regAtCancel, prevOk, adminCalls>>

\* SyncAllConfiguredSources: the head of the loop over schemaSources, and
\* the return of the joined errors after the last source
SyncAllLoop ==
  /\ pc = "loop"
  /\ IF call.idx <= Len(schemaSources)
       THEN LET st == BeforeFetch(wiring, NewFrame(schemaSources[call.idx], mcpTools))
            IN  /\ pc' = st.pc
                /\ ret' = st.ret
                /\ cur' = st.frame
                /\ outcomes' = Recorded(st)
                /\ UNCHANGED <<call, result>>
       ELSE /\ result' = [kind |-> "all", err |-> errorsJoin(syncErrors), errs |-> syncErrors]
            /\ pc' = "idle"
            /\ call' = NoCall
            /\ UNCHANGED <<ret, cur, outcomes>>
  /\ UNCHANGED <<bridgeVars, lib, wiring, schemaSources, cancelled, syncErrors, mcpTools, addLog,
                 regAtCancel, prevOk, adminCalls>>

\* the admin handler, or a test: Execute(ctx, source)
AdminExecute(source) ==
  /\ wiring \in {"mcpizer", "harness"}
  /\ pc = "idle"
  /\ Len(schemaSources) + adminCalls < MaxSyncs
  /\ adminCalls' = adminCalls + 1
  /\ call' = [kind |-> "one", idx |-> 0]
  /\ result' = NoResult
  /\ cancelled' = FALSE
  /\ regAtCancel' = EmptyRegistry
  /\ addLog' = <<>>
  /\ LET st == BeforeFetch(wiring, NewFrame(source, mcpTools))
     IN  /\ pc' = st.pc
         /\ ret' = st.ret
         /\ cur' = st.frame
         /\ outcomes' = IF st.pc = "returned"
                          THEN <<[source |-> st.frame.src, err |-> st.ret]>>
                          ELSE <<>>
  /\ UNCHANGED <<bridgeVars, lib, wiring, schemaSources, syncErrors, mcpTools, prevOk>>

\* processSingleSourceAndRegister: fetcher.Fetch returns
Fetch ==
  /\ pc = "fetch"
  /\ \E fetched \in FetchResults(wiring, cur.src, cancelled) :
       LET st == AfterFetch(wiring, cur, fetched)
       IN  /\ pc' = st.pc
           /\ ret' = st.ret
           /\ cur' = st.frame
           /\ outcomes' = Recorded(st)
  /\ UNCHANGED <<bridgeVars, lib, wiring, schemaSources, call, cancelled, syncErrors, result, mcpTools,
                 addLog, regAtCancel, prevOk, adminCalls>>

\* processSingleSourceAndRegister: generator.Generate returns
Generate ==
  /\ pc = "generate"
  /\ \E gen \in GenerateResults(wiring, cur.schema) :
       LET st == AfterGenerate(cur, gen)
       IN  /\ pc' = st.pc
           /\ ret' = st.ret
           /\ cur' = st.frame
           /\ outcomes' = Recorded(st)
  /\ UNCHANGED <<bridgeVars, lib, wiring, schemaSources, call, cancelled, syncErrors, result, mcpTools,
                 addLog, regAtCancel, prevOk, adminCalls>>

\* processSingleSourceAndRegister: one round of the registration loop, or
\* the return of nil after its last round
Register ==
  /\ pc = "register"
  /\ IF cur.i > Len(cur.tools)
       THEN /\ pc' = "returned"
            /\ ret' = Nil
            /\ outcomes' = Append(outcomes, [source |-> cur.src, err |-> Nil])
            /\ UNCHANGED <<cur, mcpTools, addLog>>
       ELSE LET k == ToolIndex(cur)
                domainTool == cur.tools[k]
                converted == convertDomainToolToMCPTool(domainTool)
            IN  /\ IF k > Len(cur.details) \/ converted.err # Nil
                     THEN UNCHANGED <<mcpTools, addLog>>
                     ELSE /\ mcpTools' = AddTool(mcpTools, converted.mcpTool,
                                                 createToolHandler(cur.details[k], domainTool.Name))
                          /\ addLog' = Append(addLog, [idx |-> call.idx, pos |-> k,
                                                       name |-> converted.mcpTool.Name])
                /\ cur' = [cur EXCEPT !.i = cur.i + 1]
                /\ UNCHANGED <<pc, ret, outcomes>>
  /\ UNCHANGED <<bridgeVars, lib, wiring, schemaSources, call, cancelled, syncErrors, result,
                 regAtCancel, prevOk, adminCalls>>

\* the caller of processSingleSourceAndRegister takes its return value:
\* SyncAllConfiguredSources collects the error and goes on, Execute wraps it
SyncOneReturned ==
  /\ pc = "returned"
  /\ prevOk' = IF ret = Nil THEN [src |-> cur.src, schema |-> cur.schema] ELSE prevOk
  /\ cur' = NoFrame
  /\ ret' = Nil
  /\ IF call.kind = "all"
       THEN /\ syncErrors' = IF ret # Nil
                               THEN Append(syncErrors, [source |-> cur.src, err |-> ret])
                               ELSE syncErrors
            /\ call' = [call EXCEPT !.idx = NextSourceIndex(call.idx, ret, Len(schemaSources))]
            /\ pc' = "loop"
            /\ UNCHANGED result
       ELSE /\ result' = [kind |-> "one",
                          err |-> IF ret # Nil THEN Wrap("error executing sync for source", ret)
                                  ELSE Nil,
                          errs |-> <<>>]
            /\ call' = NoCall
            /\ pc' = "idle"
            /\ UNCHANGED syncErrors
  /\ UNCHANGED <<bridgeVars, lib, wiring, schemaSources, cancelled, mcpTools, addLog, outcomes,
                 regAtCancel, adminCalls>>

\* the admin client goes away: the request context of Execute is cancelled
Cancel ==
  /\ wiring = "mcpizer"
  /\ call.kind = "one"
  /\ pc \in {"fetch", "generate", "register"}
  /\ ~cancelled
  /\ cancelled' = TRUE
  /\ regAtCancel' = mcpTools
  /\ UNCHANGED <<bridgeVars, lib, wiring, schemaSources, pc, call, cur, syncErrors, ret, result, mcpTools,
                 addLog, outcomes, prevOk, adminCalls>>

Next ==
  \/ SyncAllStart
  \/ SyncAllLoop
  \/ \E source \in (IF wiring = "harness" THEN {HarnessURL} ELSE SourceCatalog) :
       AdminExecute(source)
  \/ Fetch
  \/ Generate
  \/ Register
  \/ SyncOneReturned
  \/ Cancel
  \/ \E source \in {HttpURL, FileURL, GrpcURL} : BridgeExecute(source)
  \/ \E toolName \in (DOMAIN repoTools) \cup {UnknownName} : InvokeStart(toolName)
  \/ FindToolByName
  \/ FindInvocationDetailsByName
  \/ InvokeUpstream
  \/ GenerateFromProto
  \/ GenerateFromReflection
  \/ HTTPInvoke
  \/ HTTPDoFails
  \/ \E response \in Responses : HTTPResponse(response)
  \/ \E backendErr \in {Nil, <<"backend failed">>} : RouterInvoke(backendErr)
  \/ ResolveSchemaSource
  \/ \E answer \in Answers : Probe(answer)
  \/ FetchResolved
  \/ LoadEntry
  \/ ClassifyEntry
  \/ ConnectInvoke
  \/ ConnectDoFails
  \/ \E response \in ConnectResponses : ConnectResponse(response)
  \/ ProtoGenerateForMode
  \/ ConnectGenerateForMode
  \/ GenerateOnce
  \/ GenerateAgain
  \/ SanitizeOnce
  \/ SanitizeAgain
  \/ \E tools \in ToolLists, details \in DetailsLists : SaveLock(tools, details)
  \/ SaveCheckLengths
  \/ SaveStoreTool
  \/ SaveStoreDetails
  \/ SaveReturn
  \/ RepoList
  \/ \E name \in {Tool1.Name, Tool2.Name} : RepoFindToolByName(name)
  \/ \E name \in {Tool1.Name, Tool2.Name} : RepoFindInvocationDetailsByName(name)

Spec == Init /\ [][Next]_vars

(***************************************************************************)
(* Properties of SyncAllConfiguredSources and processSingleSourceAndRegister *)
(***************************************************************************)
\* the limit MCP clients put on the length of a tool name
MaxToolNameLen == 64

Failed(history) == SelectSeq(history, LAMBDA o : o.err # Nil)

\* the AddTool calls the call in progress made for the source it is at
LoggedNames == {addLog[j].name : j \in {i \in 1..Len(addLog) : addLog[i].idx = call.idx}}

\* the non-streaming operations a fetched schema describes
Operations(schema) ==
  IF schema.Type = "grpc"
    THEN {<<schema.ParsedData[s].Name, schema.ParsedData[s].Methods[m].Name>> :
            <<s, m>> \in {sm \in (1..Len(schema.ParsedData)) \X (1..3) :
                            /\ sm[2] <= Len(schema.ParsedData[sm[1]].Methods)
                            /\ ~schema.ParsedData[sm[1]].Methods[sm[2]].ClientStreaming
                            /\ ~schema.ParsedData[sm[1]].Methods[sm[2]].ServerStreaming}}
    ELSE schema.ParsedData.Ops

\* C1: when SyncAllConfiguredSources returns, processSingleSourceAndRegister
\* was invoked once for every configured source, in order, whatever failed
\* before; the joined error is made of the errors of exactly the sources
\* that failed, and it is nil when none failed.
C1_SyncAllVisitsEverySource ==
  result.kind = "all" =>
    /\ [i \in 1..Len(outcomes) |-> outcomes[i].source] = schemaSources
    /\ result.errs = Failed(outcomes)
    /\ (result.err = Nil) <=> (Failed(outcomes) = <<>>)

\* C1 witness: a finished sync over two sources of which the first failed
\* and the second registered tools
C1_Witness ==
  /\ result.kind = "all"
  /\ Len(schemaSources) = 2
  /\ outcomes[1].err # Nil
  /\ outcomes[2].err = Nil
  /\ Len(result.errs) = 1
  /\ DOMAIN mcpTools # {}

\* C2: when processSingleSourceAndRegister returns nil for a source, every
\* non-streaming operation of the fetched schema has its own registered
\* tool: as many distinct names were registered as there are operations,
\* and no name is longer than 64 characters.
C2_OneToolPerOperation ==
  (wiring = "mcpizer" /\ pc = "returned" /\ ret = Nil) =>
    /\ Cardinality(LoggedNames) = Cardinality(Operations(cur.schema))
    /\ \A n \in LoggedNames : n \in DOMAIN mcpTools /\ Len(n) <= MaxToolNameLen

\* C3: a registered name identifies one operation: within one run of a
\* sync no two AddTool calls carry the same name, unless they come from the
\* same source string configured twice.
C3_NameIdentifiesOneOperation ==
  \A i, j \in 1..Len(addLog) :
    (i < j /\ addLog[i].name = addLog[j].name) =>
      /\ addLog[i].idx # addLog[j].idx
      /\ schemaSources[addLog[i].idx] = schemaSources[addLog[j].idx]

StreamingMethods(services) ==
  {<<services[s].Name, services[s].Methods[m].Name>> :
     <<s, m>> \in {sm \in (1..Len(services)) \X (1..3) :
                     /\ sm[2] <= Len(services[sm[1]].Methods)
                     /\ \/ services[sm[1]].Methods[sm[2]].ClientStreaming
                        \/ services[sm[1]].Methods[sm[2]].ServerStreaming}}

\* C5: no generator of gRPC tools produces a tool for a method whose
\* client-streaming or server-streaming flag is set: not the generator fed
\* by server reflection, whose tools the sync registers, and not the
\* generator fed by a parsed .proto file.
C5_NoToolForStreamingMethod ==
  /\ \A n \in DOMAIN mcpTools :
       <<mcpTools[n].handler.details.GRPCService, mcpTools[n].handler.details.GRPCMethod>>
         \notin StreamingMethods(GrpcServicesTwo)
  /\ lib.by = "grpc" =>
       \A i \in 1..Len(lib.out.details) :
         <<lib.out.details[i].GRPCService, lib.out.details[i].GRPCMethod>>
           \notin StreamingMethods(lib.in.ParsedData)
  /\ lib.by = "proto" =>
       \A i \in 1..Len(lib.out.details) :
         \A sm \in StreamingMethods(lib.in.RawData.Services) :
           lib.out.details[i].Method # ProtoFullMethodName(lib.in.RawData.Package, sm[1], sm[2])

\* C6: when the generator returned tool and details lists of different
\* lengths, processSingleSourceAndRegister does not return nil.
C6_LengthMismatchIsAnError ==
  (pc = "returned" /\ Len(cur.tools) # Len(cur.details)) => ret # Nil

\* C7: when the classification, the fetch, the type check or the generation
\* of a source fails, processSingleSourceAndRegister returns an error and
\* that call made no AddTool: the tools of the server are as it found them.
C7_FailureRegistersNothing ==
  (pc = "returned" /\ cur.failure # "") =>
    /\ ret # Nil
    /\ LoggedNames = {}
    /\ mcpTools = cur.reg0

\* C7 witness: the generator failed after it had produced a tool
C7_Witness ==
  /\ pc = "returned"
  /\ cur.failure = "generate"
  /\ cur.schema.ParsedData \in MockScripts
  /\ cur.schema.ParsedData.tools # <<>>
  /\ ret # Nil

\* C8: AddTool is called in the order the generator emitted the tools
\* within a source, and every tool of an earlier configured source is
\* registered before any tool of a later one.
C8_RegistrationOrder ==
  \A i, j \in 1..Len(addLog) :
    i < j => \/ addLog[i].idx < addLog[j].idx
             \/ addLog[i].idx = addLog[j].idx /\ addLog[i].pos < addLog[j].pos

\* C8 witness: two tools of the first source and one of the second
C8_Witness ==
  /\ Len(addLog) >= 3
  /\ addLog[1].idx = 1 /\ addLog[2].idx = 1
  /\ addLog[Len(addLog)].idx = 2

\* C9: when the context of Execute was cancelled while the sync was in
\* progress, the sync stopped there: Execute returned an error
\* (context.Canceled, or the error of a step that failed on its own), nothing
\* was registered after the cancellation and what was registered before is
\* still registered.
C9_CancelStopsSync ==
  (result.kind = "one" /\ cancelled) =>
    /\ result.err # Nil
    /\ mcpTools = regAtCancel

\* C10: a sync of a source that succeeds right after a successful sync of
\* the same source with the same fetched schema leaves the registered tools
\* and their handlers as they were.
C10_ResyncIsIdempotent ==
  (pc = "returned" /\ ret = Nil /\ prevOk = [src |-> cur.src, schema |-> cur.schema]) =>
    mcpTools = cur.reg0

\* C11: a registered tool name is never unregistered: every step of every
\* sync, also of a source that no longer has the operation, leaves every
\* name of the MCP server registered with a tool and a handler, and every
\* name of the repository stored with its tool and its details.
C11_NeverUnregistered ==
  [][/\ DOMAIN mcpTools \subseteq DOMAIN mcpTools'
     /\ DOMAIN repoTools \subseteq DOMAIN repoTools'
     /\ DOMAIN repoDetails \subseteq DOMAIN repoDetails']_vars

\* C11 witness: a sync of a source succeeded right after a sync of the same
\* source that had fetched another schema, and a tool of the earlier sync
\* that the later one did not register again is still registered
C11_Witness ==
  /\ pc = "returned"
  /\ ret = Nil
  /\ prevOk.src = cur.src
  /\ prevOk.schema # cur.schema
  /\ \E n \in DOMAIN cur.reg0 : n \notin LoggedNames /\ n \in DOMAIN mcpTools

(***************************************************************************)
(* Properties of the HTTP invoker                                          *)
(***************************************************************************)
\* Invoke was called on the details and arguments of lib.in
Called == wiring = "httpinvoker" /\ lib.by # "none"

\* the names between braces in the path of the call
Placeholders(details) ==
  {name \in ArgumentNames :
     Contains(PathJoin(details.BasePath, details.HTTPPath), <<"{">> \o name \o <<"}">>)}

Listed(names, name) == \E i \in 1..Len(names) : names[i] = name

\* the arguments that fill no placeholder and are no query parameter
Unconsumed(details, params) ==
  {name \in DOMAIN params : name \notin Placeholders(details) /\ ~Listed(details.QueryParams, name)}

JSONObjectOf(params, names) == Marshal(ObjValue([name \in names |-> params[name]]))

C13_AbsentBodyParamSendsTheRest ==
  (/\ Called
   /\ lib.in.details.HTTPMethod \in {Post, Put, Patch}
   /\ lib.in.details.BodyParam # EmptyString
   /\ lib.in.details.BodyParam \notin DOMAIN lib.in.params
   /\ Unconsumed(lib.in.details, lib.in.params) # {})
    => /\ lib.by # "refused"
       /\ lib.out.req.HasBody
       /\ lib.out.req.Body =
            JSONObjectOf(lib.in.params, Unconsumed(lib.in.details, lib.in.params))

C15_UnmatchedPlaceholderStays ==
  \A name \in ArgumentNames :
    (/\ Called
     /\ ~UrlParseFails(lib.in.details.Host)
     /\ name \in Placeholders(lib.in.details)
     /\ name \notin DOMAIN lib.in.params)
      => IF lib.by = "refused"
           THEN lib.out.err = <<"cannot handle complex body for Content-Type">>
           ELSE Contains(lib.out.req.Path, <<"{">> \o name \o <<"}">>)

\* a GET of the item path without an id was sent
C15_Witness ==
  /\ Called
  /\ lib.by = "sent"
  /\ lib.in.details.HTTPMethod = Get
  /\ lib.in.details.HTTPPath = ItemPath
  /\ IdName \notin DOMAIN lib.in.params
  /\ lib.out.req.Path = <<"/","v","1">> \o ItemPath

\* C16: for every response whose status is outside 200..299, Invoke returns
\* an error that carries the status code and the response body, and no
\* result.
C16_StatusErrorCarriesCodeAndBody ==
  (/\ Called
   /\ lib.by = "answered"
   /\ ~(lib.out.resp.StatusCode >= 200 /\ lib.out.resp.StatusCode <= 299))
    => /\ lib.out.result = NilResult
       /\ Len(lib.out.err) = 1
       /\ lib.out.err[1] = <<"H","T","T","P"," ">> \o Decimal(lib.out.resp.StatusCode)
                             \o <<":"," ">> \o lib.out.resp.Body

\* a 300 with a body was answered
C16_Witness ==
  /\ Called
  /\ lib.by = "answered"
  /\ lib.out.resp.StatusCode = 300
  /\ lib.out.resp.Body = <<"o","o","p","s">>
  /\ lib.out.err # Nil

\* C17: for every 2xx response with an empty body, Invoke returns the empty
\* string and no error, whatever the content type of the response.
C17_EmptyBodyIsEmptyString ==
  (/\ Called
   /\ lib.by = "answered"
   /\ lib.out.resp.StatusCode >= 200 /\ lib.out.resp.StatusCode <= 299
   /\ lib.out.resp.Body = EmptyString)
    => lib.out.result = StrValue(EmptyString) /\ lib.out.err = Nil

\* a 2xx that declares JSON and has no body was answered
C17_Witness ==
  /\ Called
  /\ lib.by = "answered"
  /\ lib.out.resp.StatusCode = 299
  /\ lib.out.resp.ContentType = JSONMediaType
  /\ lib.out.resp.Body = EmptyString
  /\ lib.out.result = StrValue(EmptyString)

(***************************************************************************)
(* Properties of the invoker router                                        *)
(***************************************************************************)
\* C18: the Router invokes exactly one backend, chosen by the transport type
\* of the invocation details alone: the gRPC invoker for "grpc", the Connect
\* invoker for "connect", the HTTP invoker for "http" and for the empty
\* type; for any other type it returns an error and invokes no backend.
C18_RoutesByTypeAlone ==
  (wiring = "router" /\ lib.by = "routed")
    => IF lib.in.Type \in {"grpc", "connect", "http", ""}
         THEN /\ Len(lib.out.calls) = 1
              /\ lib.out.calls[1].backend = (IF lib.in.Type = "" THEN "http" ELSE lib.in.Type)
         ELSE lib.out.calls = <<>> /\ lib.out.err # Nil

\* details without a type went to the HTTP invoker
C18_Witness ==
  /\ wiring = "router"
  /\ lib.by = "routed"
  /\ lib.in.Type = ""
  /\ lib.out.calls = <<RouteHTTP(lib.in)>>
  /\ lib.out.err = Nil

(***************************************************************************)
(* Properties of the OpenAPI auto-discovery                                *)
(***************************************************************************)
Discovering == wiring = "autodiscover" /\ lib.by # "none"

\* a 200 whose content type names JSON or the OpenAPI JSON media type
Acceptable(answer) ==
  /\ ~answer.failed
  /\ answer.StatusCode = 200
  /\ \/ Contains(answer.ContentType, JSONMediaType)
     \/ Contains(answer.ContentType, <<"a","p","p","l","i","c","a","t","i","o","n","/","v","n","d",".","o","a","i",".","o","p","e","n","a","p","i","+","j","s","o","n">>)

\* C19: auto-discovery probes the candidate paths in the listed order,
\* returns the first candidate that answers 200 with an acceptable JSON
\* content type, and issues no probe after that success.
C19_FirstAcceptableCandidateWins ==
  Discovering =>
    LET probes == lib.out.probes
        n == Len(probes)
    IN  /\ n <= Len(commonOpenAPIPaths)
        /\ \A i \in 1..n : HasSuffix(probes[i].url, commonOpenAPIPaths[i])
        /\ \A i \in 1..(n - 1) : ~probes[i].found
        /\ n > 0 => /\ probes[n].found = Acceptable(lib.out.answer)
                    /\ probes[n].found =>
                         lib.by \in {"resolved", "fetched"} /\ lib.out.resolved = probes[n].url

\* the second candidate answered and was returned after two probes
C19_Witness ==
  /\ Discovering
  /\ lib.by = "resolved"
  /\ lib.in.source = BaseURL
  /\ Len(lib.out.probes) = 2
  /\ lib.out.resolved = BaseURL \o <<"/","d","o","c","s","/","o","p","e","n","a","p","i",".","j","s","o","n">>

\* the source names a schema: it ends in .json or .yaml, or contains
\* openapi, swagger or api-docs
PointsAtSchema(source) ==
  \/ HasSuffix(ToLower(source), <<".","j","s","o","n">>)
  \/ HasSuffix(ToLower(source), <<".","y","a","m","l">>)
  \/ Contains(ToLower(source), <<"o","p","e","n","a","p","i">>)
  \/ Contains(ToLower(source), <<"s","w","a","g","g","e","r">>)
  \/ Contains(ToLower(source), <<"a","p","i","-","d","o","c","s">>)

\* C20: an OpenAPI source URL whose path ends in .json or .yaml, or contains
\* openapi, swagger or api-docs, is fetched verbatim: no auto-discovery
\* probe is issued for it.
C20_SchemaURLIsFetchedVerbatim ==
  (Discovering /\ ~HasNoScheme(lib.in.source) /\ PointsAtSchema(lib.in.source))
    => /\ lib.out.probes = <<>>
       /\ lib.by = "fetched" => lib.out.fetched = lib.in.source

(***************************************************************************)
(* Properties of the configuration entries                                 *)
(***************************************************************************)
\* the source without its @ref
StripRef(url) == Split(url, "@")[1]

\* the kind of the first matching rule of the classifier
FirstMatchingRule(entry) ==
  IF HasPrefix(entry.URL, <<"g","i","t","h","u","b",":","/","/">>) THEN "github"
  ELSE IF HasPrefix(entry.URL, <<"g","r","p","c",":","/","/">>) THEN "grpc"
  ELSE IF HasSuffix(StripRef(entry.URL), <<".","p","r","o","t","o">>) THEN "proto"
  ELSE IF entry.Type = "connect" THEN "connect"
  ELSE IF \/ HasPrefix(entry.URL, <<"h","t","t","p",":","/","/">>)
          \/ HasPrefix(entry.URL, <<"h","t","t","p","s",":","/","/">>)
          \/ ~Contains(entry.URL, <<":","/","/">>)
    THEN "openapi"
  ELSE ""

\* C21: the classifier gives each source the kind of the first matching
\* rule, in the order github:// prefix, grpc:// prefix, path ending in
\* .proto after stripping an @ref, type hint connect, http or https scheme
\* or bare host.
C21_FirstMatchingRuleClassifies ==
  (wiring = "config" /\ lib.by = "classified") => lib.out.kind = FirstMatchingRule(lib.in)

\* C22: every configuration entry whose URL is a .proto file and that has no
\* server is rejected: it is skipped with a warning and never fetched.
C22_ProtoWithoutServerIsSkipped ==
  (/\ wiring = "config"
   /\ lib.by # "none"
   /\ HasSuffix(lib.in.URL, <<".","p","r","o","t","o">>)
   /\ lib.in.Server = EmptyString)
    => lib.by = "skipped" /\ lib.out.warned /\ lib.out.fetcher = "none"

(***************************************************************************)
(* Properties of the Connect invoker                                       *)
(***************************************************************************)
ConnectAnswered == wiring = "connect" /\ lib.by = "answered"

\* the body of the response is the JSON of a document with a top-level
\* error object
AnsweredErrorObject ==
  \E doc \in ConnectDocs :
    /\ Marshal(doc) = lib.out.resp.Body
    /\ doc.t = "obj"
    /\ ErrorKey \in DOMAIN doc.v
    /\ doc.v[ErrorKey].t = "obj"

C24_HTTPModeEmitsConnectTools ==
  (wiring = "mode" /\ lib.by # "none" /\ lib.in.ParsedData.mode = "http")
    => \A i \in 1..Len(lib.out.details) :
         /\ lib.out.details[i].Type = "connect"
         /\ \E j \in 1..Len(lib.in.RawData.Services[1].Methods) :
              lib.out.details[i].Method =
                ProtoFullMethodName(lib.in.RawData.Package, lib.in.RawData.Services[1].Name,
                                    lib.in.RawData.Services[1].Methods[j].Name)
         /\ Len(lib.out.calls[i]) = 1
         /\ lib.out.calls[i][1].backend = "connect"

\* C25: two runs of the OpenAPI generator on the same schema bytes emit the
\* same list of tools in the same order
C25_TwoRunsEmitTheSameList ==
  (wiring = "openapi" /\ lib.by = "twice") => lib.out.second.tools = lib.out.first.tools

\* the names p whose placeholder {p} occurs in a path
PathPlaceholders(path) ==
  {name \in ArgumentNames : Contains(path, <<"{">> \o name \o <<"}">>)}

\* C28: the pathParams of the invocation details generated for an operation
\* contain every p whose placeholder {p} occurs in the path of the operation
C28_PathParamsCoverPlaceholders ==
  (wiring = "openapi" /\ lib.by # "none")
    => \A i \in 1..Len(lib.out.first.details) :
         \A name \in PathPlaceholders(lib.out.first.details[i].HTTPPath) :
           Listed(lib.out.first.details[i].PathParams, name)

\* the lower-cased {svc}-{method} of a service and a method: the last
\* dot-delimited component of the service name, a dash, the method name
NameCandidate(serviceName, methodName) ==
  LET parts == Split(serviceName, ".")
  IN  ToLower(parts[Len(parts)]) \o <<"-">> \o ToLower(methodName)

\* the shortening branch made a name: 40 characters, a dash and the hash digest
ShorteningTaken(name, serviceName, methodName) ==
  /\ Len(name) > GrpcNameKeep
  /\ name[GrpcNameKeep + 1] = "-"
  /\ SubSeq(name, GrpcNameKeep + 1, Len(name))
       = <<"-">> \o Hex(Fnv32aLow16(serviceName \o <<".">> \o methodName))

\* C26: the name of a gRPC tool comes from the shortening branch (40
\* characters, a dash, the hash digest) exactly when the lower-cased
\* {svc}-{method} candidate is longer than 50 characters, and it is at most
\* 46 characters long
C26_ShortenedExactlyWhenCandidateIsLong ==
  (wiring = "library" /\ lib.by = "grpc")
    => \A i \in 1..Len(lib.out.details) :
         LET serviceName == lib.out.details[i].GRPCService
             methodName == lib.out.details[i].GRPCMethod
             name == lib.out.tools[i].Name
         IN  /\ Len(name) <= MaxShortenedLen
             /\ ShorteningTaken(name, serviceName, methodName)
                  <=> Len(NameCandidate(serviceName, methodName)) > GrpcNameMax

\* C27: sanitizing a sanitized name gives the same name again
C27_SanitizeIsIdempotent ==
  (wiring = "sanitize" /\ lib.by = "twice") => lib.out.second = lib.out.first

\* a name with an upper-case letter, a rewritten character and an underscore
\* to trim was sanitized twice
C27_Witness ==
  /\ wiring = "sanitize"
  /\ lib.by = "twice"
  /\ lib.in = <<" ", "A", "-", "_">>
  /\ lib.out.first = <<"a">>

\* a Save of the repository on its own has returned
SaveReturned == wiring = "memrepo" /\ lib.by = "returned"

\* C29: a Save whose tool list and details list differ in length returns an
\* error and leaves both maps of the registry as they were when it was called
C29_MismatchedSaveChangesNothing ==
  (SaveReturned /\ Len(lib.in.tools) # Len(lib.in.details))
    => /\ bridgeRet # Nil
       /\ repoTools = lib.out.tools
       /\ repoDetails = lib.out.details

\* a Save with one tool and two details returned on a registry that an
\* earlier Save had filled
C29_Witness ==
  /\ SaveReturned
  /\ lib.in.tools = <<Tool1>>
  /\ lib.in.details = <<Details1, Details2>>
  /\ DOMAIN repoTools = {Tool1.Name, Tool2.Name}

\* C30: whenever no Save holds the write lock, so that a reader can take the
\* read lock, the registry holds a tool for exactly the names it holds
\* invocation details for
C30_ToolIffDetails ==
  ~(wiring = "memrepo" /\ Locked(lib.by)) => DOMAIN repoTools = DOMAIN repoDetails

\* a reader found the details of a tool that the second Save stored, after
\* another reader listed the registry
C30_Witness ==
  /\ SaveReturned
  /\ bridgeSyncs = MaxSaves
  /\ lib.out.listed = {Tool1}
  /\ inv.pc = "foundDetails"
  /\ inv.name = Tool2.Name
  /\ inv.details = Details2

====
